---- MODULE Spec2Model ----
(***************************************************************************)
(* Event-driven task lifecycle engine: recurring-task generator,           *)
(* reminder dispatcher, WebSocket connection hub, and the backend's        *)
(* add_task with the recurrence and reminder functions it relies on.       *)
(*                                                                         *)
(* Each service is a state machine over its own part of the state.  A      *)
(* handler is cut into steps exactly where its code can be interleaved     *)
(* with another handler: at an `await` inside one service process, and     *)
(* between a SELECT and the later commit for handlers that may run in      *)
(* different service processes against the shared store.                   *)
(*                                                                         *)
(* Events, job triggers, webhook answers and socket I/O results are inputs  *)
(* chosen nondeterministically from small sets.  The store is an input     *)
(* where the code handles its failure itself (the two retry_count writes   *)
(* of deliver_notification_with_retry, the commit of add_task) or where    *)
(* the schema decides the outcome (a delete of a referenced task); the     *)
(* other selects and commits are taken to succeed.                         *)
(***************************************************************************)
EXTENDS Integers, Sequences, FiniteSets, TLC

VARIABLES
    tasks,                  \* tasks table: set of Task rows
    gen,                    \* recurring-task service: position of each in-flight delivery
    gen_resp,               \* recurring-task service: last response of each delivery slot
    published,              \* events actually handed to the pub/sub client
    handled,                \* history: task.completed deliveries taken up so far (capped)
    reminders,              \* reminders table: reminder id -> Reminder row
    disp,                   \* notification service: position of each dispatch
    disp_resp,              \* notification service: last result of each dispatch slot
    blocking,               \* dispatch holding the event loop: in time.sleep or between
                            \* two database statements (or NoProc)
    webhook_ok,             \* reminder id -> number of 2xx answers the webhook gave
    triggers,               \* reminder id -> number of dispatches started
    active_connections,     \* ConnectionManager.active_connections
    connection_timestamps,  \* ConnectionManager.connection_timestamps
    now,                    \* time.time()
    ws,                     \* websocket_endpoint coroutine of each socket
    bc,                     \* broadcast_to_user coroutine of each handler slot
    frames,                 \* socket -> types of the frames it was sent
    accepted_at,            \* owner -> times at which connect() registered a connection
    call,                   \* backend API: the invocation each worker is serving (function, position, locals)
    ret,                    \* backend API: what the latest step returned or raised to its caller
    jobs,                   \* scheduler: names of the jobs registered with it
    uuids                   \* backend API: number of row ids uuid4() has handed out

genVars == <<gen, gen_resp, published, handled>>
remVars == <<reminders, disp, disp_resp, blocking, webhook_ok, triggers>>
hubVars == <<active_connections, connection_timestamps, now, ws, bc, frames, accepted_at>>
apiVars == <<call, ret, jobs, uuids>>
vars == <<tasks, genVars, remVars, hubVars, apiVars>>

(***************************************************************************)
(* Bounds of the model                                                     *)
(***************************************************************************)
MaxTasks == 2
MaxDispatches == 2
MaxSockets == 4
MaxHubSockets == 2
MaxAccepts == 11
MaxTime == 30
MaxApplications == 2
MaxInterval == 3
\* the count of handled deliveries is exact up to here, where it stops
MaxHandled == MaxTasks + 1
\* an idle timeout shorter than the time the model lets pass
IdleTimeout == 20

Users == {"u1", "u2"}
None == "None"
NoCall == [fn |-> None]
\* the processes that serve the backend API
ApiWorkers == {"a1", "a2"}
NoRet == [kind |-> None]

(***************************************************************************)
(* Calendar (datetime, timedelta, dateutil.relativedelta)                  *)
(***************************************************************************)
IsLeap(y) == (y % 4 = 0 /\ y % 100 # 0) \/ y % 400 = 0

DaysInMonth(y, mo) ==
    IF mo = 2 THEN (IF IsLeap(y) THEN 29 ELSE 28)
    ELSE IF mo \in {4, 6, 9, 11} THEN 30 ELSE 31

Min(a, b) == IF a < b THEN a ELSE b

DateTime(y, mo, d, tod) == [y |-> y, mo |-> mo, d |-> d, tod |-> tod]

RECURSIVE AddDays(_, _)
AddDays(dt, n) ==
    LET dim == DaysInMonth(dt.y, dt.mo) IN
    IF dt.d + n <= dim THEN [dt EXCEPT !.d = dt.d + n]
    ELSE AddDays([dt EXCEPT !.d = 1,
                            !.mo = IF dt.mo = 12 THEN 1 ELSE dt.mo + 1,
                            !.y = IF dt.mo = 12 THEN dt.y + 1 ELSE dt.y],
                 n - (dim - dt.d + 1))

AddMonths_keep_day(dt, n) ==
    LET total == dt.mo - 1 + n
    IN [dt EXCEPT !.y = dt.y + (total \div 12), !.mo = (total % 12) + 1]
AddMonths(dt, n) ==
    LET total == dt.mo - 1 + n
        y2 == dt.y + (total \div 12)
        mo2 == (total % 12) + 1
    IN [dt EXCEPT !.y = y2, !.mo = mo2, !.d = Min(dt.d, DaysInMonth(y2, mo2))]

VALID_PATTERNS == {"daily", "weekly", "monthly"}
ValueError == [error |-> "ValueError"]

calculate_next_occurrence(current_date, pattern, interval) ==
    IF pattern \notin VALID_PATTERNS THEN ValueError
    ELSE IF pattern = "daily" THEN AddDays(current_date, interval)
    ELSE IF pattern = "weekly" THEN AddDays(current_date, 7 * interval)
    ELSE AddMonths(current_date, interval)

(***************************************************************************)
(* Recurring Task Service                                                  *)
(***************************************************************************)
Workers == {"w1", "w2"}
NoDate == [y |-> 0, mo |-> 0, d |-> 0, tod |-> 0]
Jan31 == DateTime(2026, 1, 31, 32400)
Feb01 == DateTime(2026, 2, 1, 32400)

\* recurrence_rules table (RecurrenceRule.pattern, RecurrenceRule.interval)
rules == [r \in {"r1", "r2"} |->
            IF r = "r1" THEN [pattern |-> "daily", interval |-> 1]
                        ELSE [pattern |-> "monthly", interval |-> 1]]

\* task_data attributes carried by an event; Missing: the key is absent
Missing == "Missing"
AttrsA == [title |-> "Pay rent", description |-> "flat", priority |-> "high", tags |-> <<"home">>]
AttrsB == [title |-> "Stand-up", description |-> None, priority |-> Missing, tags |-> <<>>]

\* due_date of a payload: an ISO-8601 string, an unparseable string, or absent
IsoDue(dt) == [kind |-> "iso", dt |-> dt]
NoDue == [kind |-> "none", dt |-> NoDate]
BadDue == [kind |-> "bad", dt |-> NoDate]

\* task_data: "object" when the envelope's task_data is a JSON object (or the
\* key is absent), "null" when it is present and not an object
Event(type, user, rec, due, attrs) ==
    [event_type |-> type, user_id |-> user, task_data |-> "object",
     recurrence_id |-> rec, due_date |-> due, attrs |-> attrs]

\* an envelope {event_type, user_id, task_data: null}
NullTaskData(type, user) ==
    [Event(type, user, None, NoDue, AttrsB) EXCEPT !.task_data = "null"]

\* the envelopes the transport may deliver, each any number of times
EventInputs ==
    { Event("task.completed", "u1", "r1", IsoDue(Jan31), AttrsA),
      Event("task.completed", "u2", "r1", IsoDue(Jan31), AttrsB),
      Event("task.completed", "u1", "r2", IsoDue(Jan31), AttrsA),
      Event("task.completed", "u1", "r1", IsoDue(Feb01), AttrsA),
      Event("task.created",   "u1", "r1", IsoDue(Jan31), AttrsA),
      Event("task.completed", "u1", None, IsoDue(Jan31), AttrsB),
      Event("task.completed", "u1", "rX", IsoDue(Jan31), AttrsA),
      Event("task.completed", "u1", "r1", NoDue, AttrsA),
      Event("task.completed", "u2", "r2", BadDue, AttrsB),
      NullTaskData("task.deleted", "u1") }

NoEvent == Event(None, None, None, NoDue, AttrsB)
GenIdle == [pc |-> "idle", ev |-> NoEvent, next_due |-> NoDate, new_task |-> 0]
Resp(status, message) == [status |-> status, message |-> message]
NoResp == Resp(None, None)

\* select(Task).where(recurrence_id, user_id, due_date, completed == False)
ExistingNextInstance_completed_only(store, recurrence_id, user_id, next_due_date) ==
    { t \in store : /\ t.recurrence_id = recurrence_id
                    /\ t.user_id = user_id
                    /\ t.due_date = next_due_date
                    /\ t.completed = TRUE }
ExistingNextInstance(store, recurrence_id, user_id, next_due_date) ==
    { t \in store : /\ t.recurrence_id = recurrence_id
                    /\ t.user_id = user_id
                    /\ t.due_date = next_due_date
                    /\ t.completed = FALSE }

\* select(Task).where(Task.id == id)
TaskById(store, id) == { t \in store : t.id = id }

\* Task(id=uuid4(), ...) built from the event's task_data
NewTask_stale_due(id, e, next_due_date) ==
    [ id |-> id,
      user_id |-> e.user_id,
      title |-> e.attrs.title,
      description |-> e.attrs.description,
      completed |-> FALSE,
      priority |-> IF e.attrs.priority = Missing THEN "normal" ELSE e.attrs.priority,
      tags |-> e.attrs.tags,
      due_date |-> e.due_date.dt,
      recurrence_id |-> e.recurrence_id ]
NewTask(id, e, next_due_date) ==
    [ id |-> id,
      user_id |-> e.user_id,
      title |-> e.attrs.title,
      description |-> e.attrs.description,
      completed |-> FALSE,
      priority |-> IF e.attrs.priority = Missing THEN "normal" ELSE e.attrs.priority,
      tags |-> e.attrs.tags,
      due_date |-> next_due_date,
      recurrence_id |-> e.recurrence_id ]

\* `if not current_due_date_str` lets the event through
has_due_date_always(e) == TRUE
has_due_date(e) == e.due_date.kind # "none"

\* `if event_type != "task.completed"` lets the event through
is_completion_any(e) == TRUE
is_completion(e) == e.event_type = "task.completed"

\* handle_task_event / process_recurring_task up to the existence check:
\* the response, or "CREATE" when the handler goes on to insert;
\* task_data.get("id") on a task_data that is not an object raises, and
\* handle_task_event answers every exception with DROP
GenDecide(store, e) ==
    IF e.task_data = "null" THEN Resp("DROP", "AttributeError")
    ELSE IF ~is_completion(e) THEN Resp("SUCCESS", "ignored")
    ELSE IF e.recurrence_id = None THEN Resp("SUCCESS", "not recurring")
    ELSE IF e.recurrence_id \notin DOMAIN rules THEN Resp("DROP", "RecurrenceRule not found")
    ELSE IF ~has_due_date(e) THEN Resp("DROP", "Task has no due_date")
    ELSE IF e.due_date.kind = "bad" THEN Resp("RETRY", "ValueError")
    ELSE LET rule == rules[e.recurrence_id]
             next_due_date == calculate_next_occurrence(e.due_date.dt, rule.pattern, rule.interval)
         IN IF next_due_date = ValueError THEN Resp("RETRY", "ValueError")
            ELSE IF ExistingNextInstance(store, e.recurrence_id, e.user_id, next_due_date) # {}
                 THEN Resp("SUCCESS", "exists")
                 ELSE Resp("CREATE", "create")

NextDue(e) ==
    calculate_next_occurrence(e.due_date.dt, rules[e.recurrence_id].pattern,
                              rules[e.recurrence_id].interval)

\* a delivery arrives at a service instance and runs to its existence check
GenReceive(w, e) ==
    /\ gen[w].pc = "idle"
    /\ LET r == GenDecide(tasks, e) IN
         IF r.status = "CREATE"
         THEN /\ uuids + Cardinality({v \in Workers : gen[v].pc = "insert"}) < MaxTasks
              /\ gen' = [gen EXCEPT ![w] = [pc |-> "insert", ev |-> e, next_due |-> NextDue(e),
                                            new_task |-> 0]]
              /\ gen_resp' = [gen_resp EXCEPT ![w] = NoResp]
         ELSE /\ gen' = gen
              /\ gen_resp' = [gen_resp EXCEPT ![w] = r]
    /\ handled' = IF e.event_type = "task.completed" THEN Min(handled + 1, MaxHandled)
                  ELSE handled
    /\ UNCHANGED <<apiVars, tasks, published, remVars, hubVars>>

\* session.add(new_task); session.commit(): the row is stored under a fresh
\* id, or the commit raises on a store error (commit_ok is FALSE): except
\* Exception, session.rollback(), RETRY with nothing stored
GenInsert(w, commit_ok) ==
    /\ gen[w].pc = "insert"
    /\ IF commit_ok
       THEN /\ tasks' = tasks \cup {NewTask(uuids + 1, gen[w].ev, gen[w].next_due)}
            /\ uuids' = uuids + 1
            /\ gen' = [gen EXCEPT ![w].pc = "refresh", ![w].new_task = uuids + 1]
            /\ gen_resp' = gen_resp
       ELSE /\ gen' = [gen EXCEPT ![w] = GenIdle]
            /\ gen_resp' = [gen_resp EXCEPT ![w] = Resp("RETRY", "store error")]
            /\ UNCHANGED <<tasks, uuids>>
    /\ UNCHANGED <<call, ret, jobs, published, handled, remVars, hubVars>>

\* session.refresh(new_task): a SELECT of the committed row, which raises
\* InvalidRequestError when the row is gone (except Exception: RETRY, with
\* the insert already committed).  Then publish_task_created(...) is called
\* without await: the coroutine is never run and nothing is published
GenRefreshed(w) ==
    /\ gen[w].pc = "refresh"
    /\ gen' = [gen EXCEPT ![w] = GenIdle]
    /\ gen_resp' = [gen_resp EXCEPT ![w] =
                       IF TaskById(tasks, gen[w].new_task) = {}
                       THEN Resp("RETRY", "InvalidRequestError")
                       ELSE Resp("SUCCESS", "created")]
    /\ UNCHANGED <<apiVars, tasks, published, handled, remVars, hubVars>>

\* complete_task (API): task.completed = True
CompleteTask(t) ==
    /\ t \in tasks
    /\ tasks' = (tasks \ {t}) \cup {[t EXCEPT !.completed = TRUE]}
    /\ UNCHANGED <<apiVars, genVars, remVars, hubVars>>

(***************************************************************************)
(* Notification Service                                                    *)
(***************************************************************************)
Procs == {"p1", "p2"}
NoProc == "NoProc"
ReminderIds == {"rem1"}
\* reminder_id of a job or event payload: the id of a reminder that was
\* stored (its row may be gone by now), or absent
ReminderInputs == ReminderIds \cup {None}
\* what the webhook POST ends with
WebhookAnswers == {"2xx", "503", "timeout", "error"}
max_retries == 3

PostOk == [kind |-> "post", val |-> 1]
PostFail == [kind |-> "post", val |-> 0]
Slept(secs) == [kind |-> "sleep", val |-> secs]

NoReminder == [task_id |-> 0, status |-> None, sent_at |-> 0, retry_count |-> 0]
\* delivered: deliver_notification_with_retry is about to `return True`;
\* dirty: the retry_count assigned differs from the value session.get loaded,
\* so the commit that follows sends an UPDATE
DispIdle == [pc |-> "idle", rid |-> None, loaded |-> NoReminder,
             attempt |-> 0, trace |-> <<>>, delivered |-> FALSE, dirty |-> FALSE]

\* 2 ** (attempt + 1)
RECURSIVE Pow2(_)
Pow2(n) == IF n = 0 THEN 1 ELSE 2 * Pow2(n - 1)
backoff_seconds(attempt) == Pow2(attempt + 1)

\* number of dispatches started so far: stands for datetime.now(UTC)
Started == LET RECURSIVE Sum(_)
               Sum(S) == IF S = {} THEN 0
                         ELSE LET r == CHOOSE r \in S : TRUE IN triggers[r] + Sum(S \ {r})
           IN Sum(ReminderIds)

\* `if task.completed`, for the row the task query returned
task_completed_never(task) == FALSE
task_completed(task) == (CHOOSE t \in task : TRUE).completed

\* the first "if" of process_reminder_delivery that lets a dispatch go on
already_handled(status) == status = "sent"

\* reminder.status = value; session.commit(): the ORM writes the column only
\* when the value differs from the one this session loaded
SetStatus_never(row, loaded, value) == row
SetStatus(row, loaded, value) ==
    IF value = loaded.status THEN row ELSE [row EXCEPT !.status = value]

\* a dispatch that has returned: nothing but the reminder id it was given
\* is kept of it
Returned(d) == [DispIdle EXCEPT !.pc = "done", !.rid = d.rid]

Finish(p, status, message) ==
    /\ disp_resp' = [disp_resp EXCEPT ![p] = Resp(status, message)]

\* session.get(Reminder, reminder.id) in a session of its own
RowExists(rs, rid) == rid \in DOMAIN rs

\* session.commit() of process_reminder_delivery's own session: the UPDATE
\* of a row that is gone matches nothing and the ORM raises StaleDataError;
\* a commit with no changed column sends no UPDATE
commit_raises(rs, rid, loaded, value) ==
    ~RowExists(rs, rid) /\ (value = "sent" \/ value # loaded.status)

\* The statements of a dispatch between two awaits run without a break in
\* the service process (the database calls are synchronous), so the event
\* loop stays with the dispatch (blocking = p) from one such statement to
\* the next; the API's workers write the store in between.

\* a request is served in the first slot that holds no dispatch in progress
FreeSlot(p) ==
    /\ disp[p].pc \in {"idle", "done"}
    /\ p = "p2" => disp["p1"].pc \notin {"idle", "done"}

\* handle_reminder_job / handle_reminder_event -> process_reminder_delivery,
\* up to the reminder query and the idempotency check
DispatchStart(p, rid) ==
    /\ blocking = NoProc
    /\ FreeSlot(p)
    /\ rid \in ReminderIds => Started < MaxDispatches
    /\ LET d0 == Returned([DispIdle EXCEPT !.rid = rid])
       IN
       IF rid = None THEN
            /\ disp' = [disp EXCEPT ![p] = d0]
            /\ Finish(p, "error", "Missing reminder_id")
            /\ UNCHANGED <<triggers, blocking>>
       ELSE IF rid \notin DOMAIN reminders THEN
            /\ disp' = [disp EXCEPT ![p] = d0]
            /\ Finish(p, "error", "Reminder not found")
            /\ UNCHANGED <<triggers, blocking>>
       ELSE LET reminder == reminders[rid]
                d1 == [DispIdle EXCEPT !.rid = rid, !.loaded = reminder]
            IN
            /\ triggers' = [triggers EXCEPT ![rid] = @ + 1]
            /\ IF already_handled(reminder.status) THEN
                    /\ disp' = [disp EXCEPT ![p] = d0]
                    /\ Finish(p, "success", "Reminder already sent (idempotent)")
                    /\ UNCHANGED blocking
               ELSE
                    /\ disp' = [disp EXCEPT ![p] = [d1 EXCEPT !.pc = "task"]]
                    /\ disp_resp' = [disp_resp EXCEPT ![p] = NoResp]
                    /\ blocking' = p
    /\ UNCHANGED <<apiVars, tasks, genVars, reminders, webhook_ok, hubVars>>

\* the task query and the two checks on its result.  No task: status =
\* "failed", commit, and the error result (a constant).  Task completed: the
\* commit of the skip comes next.  Otherwise deliver_notification_with_retry
\* is entered and its first POST awaited.
DispatchTaskLoaded(p) ==
    /\ blocking = p
    /\ disp[p].pc = "task"
    /\ LET d == disp[p]
           rid == d.rid
           task == TaskById(tasks, d.loaded.task_id)
       IN
       IF task = {} THEN
            /\ disp' = [disp EXCEPT ![p] = Returned(d)]
            /\ blocking' = NoProc
            /\ IF commit_raises(reminders, rid, d.loaded, "failed")
               THEN /\ Finish(p, "error", "StaleDataError")
                    /\ UNCHANGED reminders
               ELSE /\ reminders' =
                         IF RowExists(reminders, rid)
                         THEN [reminders EXCEPT ![rid] = SetStatus(@, d.loaded, "failed")]
                         ELSE reminders
                    /\ Finish(p, "error", "Task not found (deleted)")
       ELSE IF task_completed(task) THEN
            /\ disp' = [disp EXCEPT ![p] = [d EXCEPT !.pc = "skip"]]
            /\ UNCHANGED <<reminders, disp_resp, blocking>>
       ELSE
            /\ disp' = [disp EXCEPT ![p] = [d EXCEPT !.pc = "post"]]
            /\ blocking' = NoProc
            /\ UNCHANGED <<reminders, disp_resp>>
    /\ UNCHANGED <<apiVars, tasks, genVars, webhook_ok, triggers, hubVars>>

\* the commit of the completed-task skip (status = "sent", sent_at = now)
\* and its success result (a constant)
DispatchSkipCommitted(p) ==
    /\ blocking = p
    /\ disp[p].pc = "skip"
    /\ LET d == disp[p]
           rid == d.rid
       IN
       /\ disp' = [disp EXCEPT ![p] = Returned(d)]
       /\ blocking' = NoProc
       /\ IF commit_raises(reminders, rid, d.loaded, "sent")
          THEN /\ Finish(p, "error", "StaleDataError")
               /\ UNCHANGED reminders
          ELSE /\ reminders' = [reminders EXCEPT
                    ![rid] = [SetStatus(@, d.loaded, "sent") EXCEPT !.sent_at = Started]]
               /\ Finish(p, "success", "Task already completed, reminder skipped")
    /\ UNCHANGED <<apiVars, tasks, genVars, webhook_ok, triggers, hubVars>>

\* the awaited client.post(...) of attempt disp[p].attempt ends with `answer`.
\* After a 2xx session.get follows at once, in a session of its own: with a
\* row (`if db_reminder`) retry_count is assigned and the commit comes next;
\* without one the attempt is about to `return True`.  After any other
\* answer the attempt has failed.  Where no commit is due the block of
\* `async with httpx.AsyncClient()` is left, and the client's __aexit__ is
\* awaited.
DispatchPostDone(p, answer) ==
    /\ blocking = NoProc
    /\ disp[p].pc = "post"
    /\ LET d == disp[p]
           rid == d.rid
           posted == IF answer = "2xx" THEN PostOk ELSE PostFail
           d1 == [d EXCEPT !.trace = Append(@, posted)]
       IN
       /\ webhook_ok' = [webhook_ok EXCEPT ![rid] = IF answer = "2xx" THEN @ + 1 ELSE @]
       /\ IF answer = "2xx" /\ RowExists(reminders, rid)
          THEN /\ disp' = [disp EXCEPT ![p] =
                    [d1 EXCEPT !.pc = "count",
                               !.dirty = (reminders[rid].retry_count # d.attempt)]]
               /\ blocking' = p
          ELSE /\ disp' = [disp EXCEPT ![p] =
                    [d1 EXCEPT !.pc = "close", !.delivered = (answer = "2xx")]]
               /\ UNCHANGED blocking
    /\ UNCHANGED <<apiVars, tasks, genVars, reminders, disp_resp, triggers, hubVars>>

\* the commit of retry_count = attempt after a 2xx; store_ok: whether the
\* store lets it return.  It raises as well when its UPDATE finds the row
\* gone.  An exception is caught by the attempt's `except Exception`: the
\* attempt has failed.  Either way the client's __aexit__ is awaited next.
DispatchCounted(p, store_ok) ==
    /\ blocking = p
    /\ disp[p].pc = "count"
    /\ LET d == disp[p]
           rid == d.rid
           raised == ~store_ok \/ (d.dirty /\ ~RowExists(reminders, rid))
       IN
       /\ reminders' = IF ~raised /\ RowExists(reminders, rid)
                        THEN [reminders EXCEPT ![rid] = [@ EXCEPT !.retry_count = d.attempt]]
                        ELSE reminders
       /\ disp' = [disp EXCEPT ![p] = [d EXCEPT !.pc = "close", !.delivered = ~raised]]
       /\ blocking' = NoProc
    /\ UNCHANGED <<apiVars, tasks, genVars, disp_resp, webhook_ok, triggers, hubVars>>

\* the client's __aexit__ has returned.  After `return True`: status =
\* "sent", sent_at = now, commit; the refresh comes next.  After a failed
\* attempt that was not the last: time.sleep(backoff_seconds), the event loop
\* is held.  After the last failed attempt: session.get in a session of its
\* own; with a row retry_count is assigned and the commit comes next; without
\* one: `return False`, status = "failed", commit, and the result that reads
\* reminder.id, which the commit has expired and whose row is gone.  An
\* exception leaves through process_reminder_delivery's `except Exception`:
\* rollback and an error result.
DispatchClientClosed(p) ==
    /\ blocking = NoProc
    /\ disp[p].pc = "close"
    /\ LET d == disp[p]
           rid == d.rid
           done == Returned(d)
       IN
       IF d.delivered THEN
            IF commit_raises(reminders, rid, d.loaded, "sent")
            THEN /\ disp' = [disp EXCEPT ![p] = done]
                 /\ Finish(p, "error", "StaleDataError")
                 /\ UNCHANGED <<reminders, blocking>>
            ELSE /\ reminders' = [reminders EXCEPT
                      ![rid] = [SetStatus(@, d.loaded, "sent") EXCEPT !.sent_at = Started]]
                 /\ disp' = [disp EXCEPT ![p] = [d EXCEPT !.pc = "refresh"]]
                 /\ blocking' = p
                 /\ UNCHANGED disp_resp
       ELSE IF d.attempt < max_retries THEN
            /\ disp' = [disp EXCEPT ![p] = [d EXCEPT !.pc = "sleep",
                          !.trace = Append(@, Slept(backoff_seconds(d.attempt)))]]
            /\ blocking' = p
            /\ UNCHANGED <<reminders, disp_resp>>
       ELSE IF RowExists(reminders, rid) THEN
            /\ disp' = [disp EXCEPT ![p] =
                 [d EXCEPT !.pc = "tally",
                           !.dirty = (reminders[rid].retry_count # max_retries + 1)]]
            /\ blocking' = p
            /\ UNCHANGED <<reminders, disp_resp>>
       ELSE
            /\ disp' = [disp EXCEPT ![p] = done]
            /\ IF commit_raises(reminders, rid, d.loaded, "failed")
               THEN Finish(p, "error", "StaleDataError")
               ELSE Finish(p, "error", "ObjectDeletedError")
            /\ UNCHANGED <<reminders, blocking>>
    /\ UNCHANGED <<apiVars, tasks, genVars, webhook_ok, triggers, hubVars>>

\* session.refresh(reminder) after the commit of "sent", and the success
\* result built from the refreshed object; the refresh of a row that is gone
\* raises InvalidRequestError
DispatchRefreshed(p) ==
    /\ blocking = p
    /\ disp[p].pc = "refresh"
    /\ disp' = [disp EXCEPT ![p] = Returned(@)]
    /\ blocking' = NoProc
    /\ IF RowExists(reminders, disp[p].rid)
       THEN Finish(p, "success", "Reminder delivered successfully")
       ELSE Finish(p, "error", "InvalidRequestError")
    /\ UNCHANGED <<apiVars, tasks, genVars, reminders, webhook_ok, triggers, hubVars>>

\* the commit of retry_count = max_retries + 1 after the loop; store_ok:
\* whether the store lets it return.  It raises as well when its UPDATE
\* finds the row gone.  An exception leaves deliver_notification_with_retry
\* and process_reminder_delivery's `except Exception` answers.  Otherwise:
\* `return False`, status = "failed", and the commit comes next.
DispatchTallied(p, store_ok) ==
    /\ blocking = p
    /\ disp[p].pc = "tally"
    /\ LET d == disp[p]
           rid == d.rid
           done == Returned(d)
       IN
       IF ~store_ok THEN
            /\ disp' = [disp EXCEPT ![p] = done]
            /\ blocking' = NoProc
            /\ Finish(p, "error", "store error")
            /\ UNCHANGED reminders
       ELSE IF d.dirty /\ ~RowExists(reminders, rid) THEN
            /\ disp' = [disp EXCEPT ![p] = done]
            /\ blocking' = NoProc
            /\ Finish(p, "error", "StaleDataError")
            /\ UNCHANGED reminders
       ELSE
            /\ reminders' = IF RowExists(reminders, rid)
                            THEN [reminders EXCEPT
                                    ![rid] = [@ EXCEPT !.retry_count = max_retries + 1]]
                            ELSE reminders
            /\ disp' = [disp EXCEPT ![p] = [d EXCEPT !.pc = "fail"]]
            /\ UNCHANGED <<disp_resp, blocking>>
    /\ UNCHANGED <<apiVars, tasks, genVars, webhook_ok, triggers, hubVars>>

\* the commit of status = "failed"; the result that reads reminder.id comes
\* next
DispatchFailCommitted(p) ==
    /\ blocking = p
    /\ disp[p].pc = "fail"
    /\ LET d == disp[p]
           rid == d.rid
       IN
       IF commit_raises(reminders, rid, d.loaded, "failed") THEN
            /\ disp' = [disp EXCEPT ![p] = Returned(d)]
            /\ blocking' = NoProc
            /\ Finish(p, "error", "StaleDataError")
            /\ UNCHANGED reminders
       ELSE
            /\ reminders' = IF RowExists(reminders, rid)
                            THEN [reminders EXCEPT ![rid] = SetStatus(@, d.loaded, "failed")]
                            ELSE reminders
            /\ disp' = [disp EXCEPT ![p] = [d EXCEPT !.pc = "result"]]
            /\ UNCHANGED <<disp_resp, blocking>>
    /\ UNCHANGED <<apiVars, tasks, genVars, webhook_ok, triggers, hubVars>>

\* the error result of an exhausted delivery: `str(reminder.id)` reloads the
\* object the commit has expired and raises ObjectDeletedError when its row
\* is gone
DispatchFailReturned(p) ==
    /\ blocking = p
    /\ disp[p].pc = "result"
    /\ disp' = [disp EXCEPT ![p] = Returned(@)]
    /\ blocking' = NoProc
    /\ IF RowExists(reminders, disp[p].rid)
       THEN Finish(p, "error", "Reminder delivery failed after retries")
       ELSE Finish(p, "error", "ObjectDeletedError")
    /\ UNCHANGED <<apiVars, tasks, genVars, reminders, webhook_ok, triggers, hubVars>>

\* time.sleep returns; the loop goes on to the next attempt's POST
DispatchWake(p) ==
    /\ blocking = p
    /\ disp[p].pc = "sleep"
    /\ disp' = [disp EXCEPT ![p] = [@ EXCEPT !.pc = "post", !.attempt = @ + 1]]
    /\ blocking' = NoProc
    /\ UNCHANGED <<apiVars, tasks, genVars, reminders, disp_resp, webhook_ok, triggers, hubVars>>

(***************************************************************************)
(* WebSocket Service: ConnectionManager, websocket_endpoint,               *)
(* handle_task_update                                                      *)
(***************************************************************************)
Sockets == 1..MaxSockets
HubSockets == 1..MaxHubSockets
\* request handlers of POST /events/task-updates that may be in progress at
\* once, and the one the single-request specifications use
Handlers == {"h1", "h2"}
HubHandlers == {"h1"}
max_per_user == 3
CONNECTION_RATE_LIMIT_WINDOW == 60
MAX_CONNECTIONS_PER_WINDOW == 10

\* ?token=... after verify_jwt_token: no token, a token that does not verify,
\* or the verified subject
TokenInputs == {"none", "invalid"} \cup Users

\* event_type of the update events (the frame's "type" discriminator)
ev_type == "task.updated"

\* close_code and close_reason: the arguments of the `websocket.close(code=,
\* reason=)` that refused the attempt, if one did
WsNew == [pc |-> "new", user |-> None, close_code |-> 0, close_reason |-> None]
\* live_at_start and attempts record, for the broadcast a handler slot runs or
\* ran last, the owner's registry entry when it started and the number of
\* send_json calls made on each socket
BcIdle == [pc |-> "idle", user |-> None, connections |-> {}, visited |-> {},
           failed_connections |-> {}, sent_count |-> 0,
           live_at_start |-> {}, attempts |-> [c \in Sockets |-> 0],
           status_code |-> 0]

\* the Response handle_task_update returns on each of its paths: after the
\* broadcast, for a missing user_id, and from its two except clauses
status_code_errors_500(path) ==
    IF path \in {"JSONDecodeError", "Exception"} THEN 500 ELSE 200
status_code(path) == 200

\* self.active_connections.get(user_id, set())
Conns(ac, user_id) == IF user_id \in DOMAIN ac THEN ac[user_id] ELSE {}

\* ConnectionManager.get_total_connections
RECURSIVE SumSizes(_, _)
SumSizes(ac, keys) ==
    IF keys = {} THEN 0
    ELSE LET v == CHOOSE v \in keys : TRUE
         IN Cardinality(ac[v]) + SumSizes(ac, keys \ {v})
get_total_connections(ac) == SumSizes(ac, DOMAIN ac)

\* ConnectionManager.disconnect
disconnect_keep_key(ac, websocket, user_id) ==
    IF user_id \notin DOMAIN ac THEN ac
    ELSE [ac EXCEPT ![user_id] = @ \ {websocket}]
disconnect_drop_owner(ac, websocket, user_id) ==
    [v \in DOMAIN ac \ {user_id} |-> ac[v]]
disconnect(ac, websocket, user_id) ==
    IF user_id \notin DOMAIN ac THEN ac
    ELSE LET rest == ac[user_id] \ {websocket} IN
         IF rest = {} THEN [v \in DOMAIN ac \ {user_id} |-> ac[v]]
         ELSE [ac EXCEPT ![user_id] = rest]

\* for conn in failed_connections: self.disconnect(conn, user_id)
disconnect_all_owner(ac, conns, user_id) ==
    IF conns = {} \/ user_id \notin DOMAIN ac THEN ac
    ELSE [v \in DOMAIN ac \ {user_id} |-> ac[v]]
RECURSIVE disconnect_all(_, _, _)
disconnect_all(ac, conns, user_id) ==
    IF conns = {} THEN ac
    ELSE LET c == CHOOSE c \in conns : TRUE
         IN disconnect_all(disconnect(ac, c, user_id), conns \ {c}, user_id)

\* connect(): self.active_connections[user_id].add(websocket)
register(ac, websocket, user_id) ==
    [v \in DOMAIN ac \cup {user_id} |->
        IF v = user_id THEN Conns(ac, user_id) \cup {websocket} ELSE ac[v]]

\* ConnectionManager._cleanup_rate_limit_window
cleanup_rate_limit_window(stamps, t) ==
    SelectSeq(stamps, LAMBDA ts : ts > t - CONNECTION_RATE_LIMIT_WINDOW)

\* ConnectionManager.can_connect: "OK", or the reason of the refusal
can_connect(ac, stamps, user_id, t) ==
    IF Cardinality(Conns(ac, user_id)) >= max_per_user THEN "max connections"
    ELSE IF Len(cleanup_rate_limit_window(stamps[user_id], t)) >= MAX_CONNECTIONS_PER_WINDOW
         THEN "rate limited"
         ELSE "OK"

\* the token verifies to a subject (`if authenticated_user_id`) and
\* `authenticated_user_id != user_id`
token_mismatch_never(token, user_id) == FALSE
token_mismatch(token, user_id) == token \in Users /\ token # user_id

\* websocket_endpoint up to its first await: the token check up to `await
\* websocket.close(code=4001, ...)`, or manager.connect() up to `await
\* websocket.close(code=4003, ...)` or to `await websocket.accept()`.  A
\* refused endpoint is suspended in close(): its finally block has not run.
EndpointConnect(s, user_id, token) ==
    /\ ws[s].pc = "new"
    /\ \A r \in Sockets : r < s => ws[r].pc # "new"
    /\ Len(accepted_at[user_id]) < MaxAccepts
    /\ IF token_mismatch(token, user_id) THEN
            \* await websocket.close(code=4001, reason="User ID mismatch")
            /\ ws' = [ws EXCEPT ![s] = [pc |-> "refused", user |-> user_id, close_code |-> 4001,
                                        close_reason |-> "User ID mismatch"]]
            /\ UNCHANGED <<active_connections, connection_timestamps>>
       ELSE LET reason == can_connect(active_connections, connection_timestamps, user_id, now) IN
            /\ connection_timestamps' =
                 IF reason = "max connections" THEN connection_timestamps
                 ELSE [connection_timestamps EXCEPT ![user_id] = cleanup_rate_limit_window(@, now)]
            /\ IF reason # "OK" THEN
                    \* await websocket.close(code=4003, reason=reason)
                    ws' = [ws EXCEPT ![s] = [pc |-> "refused", user |-> user_id, close_code |-> 4003,
                                             close_reason |-> reason]]
               ELSE ws' = [ws EXCEPT ![s] = [pc |-> "accepting", user |-> user_id, close_code |-> 0,
                                             close_reason |-> None]]
            /\ UNCHANGED active_connections
    /\ UNCHANGED <<apiVars, tasks, genVars, remVars, now, bc, frames, accepted_at>>

\* `await websocket.accept()` returns: register, record the timestamp, and
\* go on to the welcome frame's `await websocket.send_json`
EndpointAccepted(s) ==
    /\ ws[s].pc = "accepting"
    /\ LET u == ws[s].user IN
         /\ active_connections' = register(active_connections, s, u)
         /\ connection_timestamps' = [connection_timestamps EXCEPT ![u] = Append(@, now)]
         /\ accepted_at' = [accepted_at EXCEPT ![u] = Append(@, now)]
    /\ ws' = [ws EXCEPT ![s].pc = "welcome"]
    /\ UNCHANGED <<apiVars, tasks, genVars, remVars, now, bc, frames>>

\* the welcome frame is sent: the endpoint enters its receive loop
EndpointWelcomed(s) ==
    /\ ws[s].pc = "welcome"
    /\ ws' = [ws EXCEPT ![s].pc = "open"]
    /\ frames' = [frames EXCEPT ![s] = @ \cup {"connection.established"}]
    /\ UNCHANGED <<apiVars, tasks, genVars, remVars, active_connections, connection_timestamps, now, bc,
                   accepted_at>>

\* receive_text() returns "ping": a pong frame is sent
EndpointPing(s) ==
    /\ ws[s].pc = "open"
    /\ "pong" \notin frames[s]
    /\ frames' = [frames EXCEPT ![s] = @ \cup {"pong"}]
    /\ UNCHANGED <<apiVars, tasks, genVars, remVars, active_connections, connection_timestamps, now, ws,
                   bc, accepted_at>>

\* the endpoint's try block ends: the close() of a refusal returns (`return`,
\* `return False`), or an await raises (accept or send fails, the client
\* disconnects); finally: manager.disconnect(websocket, user_id)
EndpointClosed(s) ==
    /\ ws[s].pc \in {"refused", "accepting", "welcome", "open"}
    /\ ws' = [ws EXCEPT ![s].pc = "closed"]
    /\ active_connections' = disconnect(active_connections, s, ws[s].user)
    /\ UNCHANGED <<apiVars, tasks, genVars, remVars, connection_timestamps, now, bc, frames, accepted_at>>

\* connections = self.active_connections[user_id].copy()
connections_copy_all(ac, user_id) == UNION {ac[v] : v \in DOMAIN ac}
connections_copy(ac, user_id) == ac[user_id]

\* handle_task_update -> broadcast_to_user up to the first send
BroadcastStart(h, user_id) ==
    /\ bc[h].pc \in {"idle", "done"}
    /\ user_id # None
    /\ LET b == [BcIdle EXCEPT !.user = user_id,
                               !.live_at_start = Conns(active_connections, user_id)]
       IN IF user_id \notin DOMAIN active_connections
          THEN bc' = [bc EXCEPT ![h] = [b EXCEPT !.pc = "done",
                        !.status_code = status_code("broadcast")]]
          ELSE bc' = [bc EXCEPT ![h] = [b EXCEPT !.pc = "sending",
                        !.connections = connections_copy(active_connections, user_id)]]
    /\ UNCHANGED <<apiVars, tasks, genVars, remVars, active_connections, connection_timestamps, now, ws,
                   frames, accepted_at>>

\* `for connection in connections`: what the loop has still to visit
loop_targets_live(b) == Conns(active_connections, b.user) \ b.visited
loop_targets(b) == b.connections \ b.visited

\* one `await connection.send_json(message)` ends, with success or an
\* exception; after the last one the failed connections are disconnected
BroadcastSend(h, c, ok) ==
    /\ bc[h].pc = "sending"
    /\ c \in loop_targets(bc[h])
    /\ ok => ws[c].pc \in {"welcome", "open"}
    /\ LET b == bc[h]
           b2 == [b EXCEPT !.visited = @ \cup {c},
                           !.attempts[c] = @ + 1,
                           !.sent_count = IF ok THEN @ + 1 ELSE @,
                           !.failed_connections = IF ok THEN @ ELSE @ \cup {c}]
       IN
       /\ frames' = IF ok THEN [frames EXCEPT ![c] = @ \cup {ev_type}] ELSE frames
       /\ IF loop_targets(b2) = {}
          THEN /\ active_connections' =
                    disconnect_all(active_connections, b2.failed_connections, b.user)
               /\ bc' = [bc EXCEPT ![h] = [b2 EXCEPT !.pc = "done", !.connections = {},
                                                       !.visited = {}, !.failed_connections = {},
                                                       !.status_code = status_code("broadcast")]]
          ELSE /\ bc' = [bc EXCEPT ![h] = b2]
               /\ UNCHANGED active_connections
    /\ UNCHANGED <<apiVars, tasks, genVars, remVars, connection_timestamps, now, ws, accepted_at>>

\* time passes
Tick ==
    /\ now + CONNECTION_RATE_LIMIT_WINDOW \div 2 <= MaxTime
    /\ now' = now + CONNECTION_RATE_LIMIT_WINDOW \div 2
    /\ UNCHANGED <<apiVars, tasks, genVars, remVars, active_connections, connection_timestamps, ws, bc,
                   frames, accepted_at>>

\* a closed socket object is gone; a new connection may get its place
SocketFreed(s) ==
    /\ ws[s].pc = "closed"
    /\ \A h \in Handlers : s \notin bc[h].connections
    /\ ws' = [ws EXCEPT ![s] = WsNew]
    /\ frames' = [frames EXCEPT ![s] = {}]
    /\ UNCHANGED <<apiVars, tasks, genVars, remVars, active_connections, connection_timestamps, now, bc,
                   accepted_at>>

(***************************************************************************)
(* Backend services: strings, dates and the pure functions of              *)
(* RecurrenceService and ReminderService                                   *)
(***************************************************************************)
Return(value) == [kind |-> "return", value |-> value]
Raise(type, message) == [kind |-> "raise", type |-> type, message |-> message]

SetMin(S) == CHOOSE x \in S : \A y \in S : x <= y
SetMax(S) == CHOOSE x \in S : \A y \in S : y <= x

\* date.toordinal(): days since 0001-01-01 (that day is 1)
RECURSIVE DaysBeforeMonth(_, _)
DaysBeforeMonth(y, mo) ==
    IF mo = 1 THEN 0 ELSE DaysBeforeMonth(y, mo - 1) + DaysInMonth(y, mo - 1)

toordinal(dt) ==
    (dt.y - 1) * 365 + ((dt.y - 1) \div 4) - ((dt.y - 1) \div 100) + ((dt.y - 1) \div 400)
      + DaysBeforeMonth(dt.y, dt.mo) + dt.d

\* datetime.timestamp() of a UTC date-time: seconds since 1970-01-01T00:00:00
timestamp(dt) == (toordinal(dt) - toordinal(DateTime(1970, 1, 1, 0))) * 86400 + dt.tod

\* a str is a sequence of one-character strings
DIGITS == <<"0", "1", "2", "3", "4", "5", "6", "7", "8", "9">>
UPPERCASE == <<"A", "B", "C", "D", "E", "F", "G", "H", "I", "J", "K", "L", "M",
               "N", "O", "P", "Q", "R", "S", "T", "U", "V", "W", "X", "Y", "Z">>
LOWERCASE == <<"a", "b", "c", "d", "e", "f", "g", "h", "i", "j", "k", "l", "m",
               "n", "o", "p", "q", "r", "s", "t", "u", "v", "w", "x", "y", "z">>
WHITESPACE == {" ", "\t"}

isdigit(c) == \E i \in DOMAIN DIGITS : DIGITS[i] = c
digit_value(c) == (CHOOSE i \in DOMAIN DIGITS : DIGITS[i] = c) - 1

\* str.lower()
lower(s) ==
    [i \in 1..Len(s) |->
        IF \E k \in DOMAIN UPPERCASE : UPPERCASE[k] = s[i]
        THEN LOWERCASE[CHOOSE k \in DOMAIN UPPERCASE : UPPERCASE[k] = s[i]]
        ELSE s[i]]

\* str.strip()
strip(s) ==
    LET kept == {i \in 1..Len(s) : s[i] \notin WHITESPACE} IN
    IF kept = {} THEN <<>> ELSE SubSeq(s, SetMin(kept), SetMax(kept))

\* int() of a string of decimal digits
RECURSIVE int(_)
int(s) == IF s = <<>> THEN 0 ELSE 10 * int(SubSeq(s, 1, Len(s) - 1)) + digit_value(s[Len(s)])

\* `sub in s`, and s[k:k+len(lit)] == lit
HasLiteral(s, k, lit) == k + Len(lit) - 1 <= Len(s) /\ SubSeq(s, k, k + Len(lit) - 1) = lit
Contains(s, sub) == \E k \in 1..Len(s) : HasLiteral(s, k, sub)

\* index of the last character of the run of digits that starts at i (i - 1: none)
DigitsEnd(s, i) ==
    LET stops == {j \in i..Len(s) : ~isdigit(s[j])} IN
    IF stops = {} THEN Len(s) ELSE SetMin(stops) - 1

\* index of the first character at or after k that is not whitespace
SkipSpaces(s, k) ==
    LET stops == {j \in k..Len(s) : s[j] \notin WHITESPACE} IN
    IF stops = {} THEN Len(s) + 1 ELSE SetMin(stops)

BEFORE == <<"b", "e", "f", "o", "r", "e">>
MINUTE == <<"m", "i", "n", "u", "t", "e">>
HOUR == <<"h", "o", "u", "r">>
DAY == <<"d", "a", "y">>

\* OFFSET_PATTERNS: r"(\d+)\s*<unit>s?\s+before", with the seconds of one unit
OFFSET_PATTERNS ==
    [minutes |-> [unit |-> MINUTE, seconds |-> 60],
     hours |-> [unit |-> HOUR, seconds |-> 3600],
     days |-> [unit |-> DAY, seconds |-> 86400]]

\* the pattern matched at position i: index after the match, 0 when it does not match
MatchEnd(s, i, unit) ==
    LET j == DigitsEnd(s, i)
        k == SkipSpaces(s, j + 1)
        a == k + Len(unit)
        b == IF a <= Len(s) /\ s[a] = "s" THEN a + 1 ELSE a
        c == SkipSpaces(s, b)
    IN IF j >= i /\ HasLiteral(s, k, unit) /\ c > b /\ HasLiteral(s, c, BEFORE)
       THEN c + Len(BEFORE) ELSE 0

NoMatch == [start |-> 0, group |-> <<>>]

\* re.fullmatch(pattern, s): the pattern has to cover the whole string
re_fullmatch(unit, s) ==
    IF Len(s) > 0 /\ MatchEnd(s, 1, unit) = Len(s) + 1
    THEN [start |-> 1, group |-> SubSeq(s, 1, DigitsEnd(s, 1))]
    ELSE NoMatch

\* re.search(pattern, s): the leftmost match anywhere in the string
re_search(unit, s) ==
    LET starts == {i \in 1..Len(s) : MatchEnd(s, i, unit) > 0} IN
    IF starts = {} THEN NoMatch
    ELSE [start |-> SetMin(starts),
          group |-> SubSeq(s, SetMin(starts), DigitsEnd(s, SetMin(starts)))]

timedelta(seconds) == [kind |-> "timedelta", seconds |-> seconds]
\* the None that stands for "no timedelta"
NoTimedelta == [kind |-> None, seconds |-> 0]

\* ReminderService.parse_reminder_offset
parse_reminder_offset(offset_str) ==
    IF offset_str = <<>> THEN NoTimedelta
    ELSE LET offset_lower == strip(lower(offset_str))
             minutes == re_search(OFFSET_PATTERNS.minutes.unit, offset_lower)
             hours == re_search(OFFSET_PATTERNS.hours.unit, offset_lower)
             days == re_search(OFFSET_PATTERNS.days.unit, offset_lower)
         IN IF minutes # NoMatch
              THEN timedelta(int(minutes.group) * OFFSET_PATTERNS.minutes.seconds)
            ELSE IF hours # NoMatch
              THEN timedelta(int(hours.group) * OFFSET_PATTERNS.hours.seconds)
            ELSE IF days # NoMatch
              THEN timedelta(int(days.group) * OFFSET_PATTERNS.days.seconds)
            ELSE NoTimedelta

\* a datetime: its instant and whether it carries a tzinfo
Aware(dt) == [ts |-> timestamp(dt), aware |-> TRUE]
Naive(dt) == [ts |-> timestamp(dt), aware |-> FALSE]

\* ReminderService.calculate_reminder_time: due_date - offset
calculate_reminder_time(due_date, offset) == [due_date EXCEPT !.ts = @ - offset.seconds]

\* `reminder_time < now` with now = datetime.now(UTC)
in_the_past(reminder_time, clock) == reminder_time.ts < clock

\* ReminderService.validate_reminder_offset; clock is what datetime.now(UTC) reads
validate_reminder_offset(offset_str, due_date, clock) ==
    LET offset == parse_reminder_offset(offset_str) IN
    IF offset = NoTimedelta THEN Return(<<FALSE, "Invalid reminder offset format">>)
    ELSE LET reminder_time == calculate_reminder_time(due_date, offset) IN
         IF ~reminder_time.aware
           THEN Raise("TypeError", "can't compare offset-naive and offset-aware datetimes")
         ELSE IF in_the_past(reminder_time, clock)
           THEN Return(<<FALSE, "Reminder time is in the past">>)
         ELSE Return(<<TRUE, None>>)

DAILY_INTERVAL_RANGE == <<1, 365>>
WEEKLY_INTERVAL_RANGE == <<1, 52>>
MONTHLY_INTERVAL_RANGE == <<1, 12>>

\* `min_val <= interval <= max_val`
in_range_no_max(interval, range) == range[1] <= interval
in_range(interval, range) == range[1] <= interval /\ interval <= range[2]

\* RecurrenceService.validate_recurrence_pattern
validate_recurrence_pattern(pattern, interval) ==
    LET range == IF pattern = "daily" THEN DAILY_INTERVAL_RANGE
                 ELSE IF pattern = "weekly" THEN WEEKLY_INTERVAL_RANGE
                 ELSE MONTHLY_INTERVAL_RANGE
    IN IF pattern \notin VALID_PATTERNS
         THEN Raise("ValueError", [text |-> "Invalid pattern", names |-> VALID_PATTERNS])
       ELSE IF ~in_range(interval, range)
         THEN Raise("ValueError", [text |-> pattern, names |-> range])
       ELSE Return(TRUE)

(***************************************************************************)
(* Calls of the pure functions                                             *)
(***************************************************************************)
DateInputs ==
    { dt \in { DateTime(y, mo, d, tod) : y \in {2023, 2024}, mo \in {1, 2, 12},
                                         d \in {1, 28, 29, 30, 31}, tod \in {0, 61261} } :
        dt.d <= DaysInMonth(dt.y, dt.mo) }
PatternInputs == VALID_PATTERNS \cup {"yearly", "Daily", ""}
IntervalInputs == (0 - 1)..MaxInterval \cup {12, 13, 52, 53, 365, 366}

\* offset strings: [junk] [number] [space] unit [space] direction [junk]
OffsetInputs ==
    { p \o n \o s1 \o u \o s2 \o dir \o q :
        p \in {<<>>, <<"1", ".">>, <<"i", "n", " ">>, <<" ">>},
        n \in {<<>>, <<"5">>, <<"3", "0">>, <<"0", "2">>, <<"o", "n", "e">>},
        s1 \in {<<>>, <<" ">>},
        u \in {MINUTE, MINUTE \o <<"s">>, HOUR, HOUR \o <<"s">>, DAY, DAY \o <<"s">>,
               <<"H", "o", "u", "r">>, <<"w", "e", "e", "k">>},
        s2 \in {<<>>, <<" ">>, <<" ", "\t">>},
        dir \in {BEFORE, <<"a", "f", "t", "e", "r">>, <<>>},
        q \in {<<>>, <<" ", "x">>} }
    \cup {<<>>}

ONE_HOUR_BEFORE == <<"1", " ">> \o HOUR \o <<" ">> \o BEFORE
HOUR_BEFORE == HOUR \o <<" ">> \o BEFORE
ONE_HOUR_AFTER == <<"1", " ">> \o HOUR \o <<" ", "a", "f", "t", "e", "r">>
TWO_DAYS_BEFORE == <<"2", " ">> \o DAY \o <<"s", " ">> \o BEFORE

\* what datetime.now(UTC) may read around the trigger time of a reminder one
\* hour before Jan31
ClockInputs == {timestamp(Jan31) - 3601, timestamp(Jan31) - 3600, timestamp(Jan31) + 60}

CallInputs ==
    [fn : {"calculate_next_occurrence"}, current_date : DateInputs \cup {Jan31},
     pattern : PatternInputs, interval : 0..MaxInterval \cup {12, 13, 52, 365},
     origin : {NoDate}, applied : {1}]
    \cup [fn : {"validate_recurrence_pattern"}, pattern : PatternInputs,
          interval : IntervalInputs]
    \cup [fn : {"parse_reminder_offset"}, offset_str : OffsetInputs]
    \cup [fn : {"validate_reminder_offset"},
          offset_str : {ONE_HOUR_BEFORE, TWO_DAYS_BEFORE, HOUR_BEFORE, ONE_HOUR_AFTER, <<>>},
          due_date : {Aware(Jan31), Naive(Jan31)}, clock : ClockInputs]

CallCalculateNextOccurrence ==
    /\ call.fn = "calculate_next_occurrence"
    /\ ret = NoRet
    /\ LET r == calculate_next_occurrence(call.current_date, call.pattern, call.interval) IN
         ret' = IF r = ValueError THEN Raise("ValueError", "Invalid recurrence pattern")
                ELSE Return(r)
    /\ UNCHANGED <<call, jobs, uuids, tasks, genVars, remVars, hubVars>>

\* the caller passes the date it got to the function again
CallAgain ==
    /\ call.fn = "calculate_next_occurrence"
    /\ ret.kind = "return"
    /\ call.applied < MaxApplications
    /\ call' = [call EXCEPT !.current_date = ret.value,
                            !.origin = IF call.applied = 1 THEN call.current_date ELSE @,
                            !.applied = @ + 1]
    /\ ret' = NoRet
    /\ UNCHANGED <<jobs, uuids, tasks, genVars, remVars, hubVars>>

CallValidateRecurrencePattern ==
    /\ call.fn = "validate_recurrence_pattern"
    /\ ret = NoRet
    /\ ret' = validate_recurrence_pattern(call.pattern, call.interval)
    /\ UNCHANGED <<call, jobs, uuids, tasks, genVars, remVars, hubVars>>

CallParseReminderOffset ==
    /\ call.fn = "parse_reminder_offset"
    /\ ret = NoRet
    /\ ret' = Return(parse_reminder_offset(call.offset_str))
    /\ UNCHANGED <<call, jobs, uuids, tasks, genVars, remVars, hubVars>>

CallValidateReminderOffset ==
    /\ call.fn = "validate_reminder_offset"
    /\ ret = NoRet
    /\ ret' = validate_reminder_offset(call.offset_str, call.due_date, call.clock)
    /\ UNCHANGED <<call, jobs, uuids, tasks, genVars, remVars, hubVars>>

(***************************************************************************)
(* Backend API: add_task (tools/server.py)                                 *)
(***************************************************************************)
\* Optional[int] argument
NoInterval == [given |-> FALSE, n |-> 0]
Interval(n) == [given |-> TRUE, n |-> n]

\* due_date argument: an ISO-8601 string with or without a zone designator,
\* a string that is not ISO-8601, or None
DueArg(dt, tz) == [kind |-> "iso", dt |-> dt, tz |-> tz]
BadDueArg == [kind |-> "bad", dt |-> NoDate, tz |-> None]
NoDueArg == [kind |-> "none", dt |-> NoDate, tz |-> None]

\* datetime.fromisoformat(due_date.replace('Z', '+00:00'))
fromisoformat(s) ==
    IF s.kind # "iso" THEN ValueError
    ELSE IF s.tz = None THEN Naive(s.dt) ELSE Aware(s.dt)

PAY_RENT == <<"P", "a", "y", " ", "r", "e", "n", "t">>

\* the arguments add_task is called with; description and tags are left out
\* (None), so their length checks pass
AddTaskInputs ==
    [user_id : {"u1"}, title : {<<" ">> \o PAY_RENT}, priority : {"normal"},
     recurrence_pattern : {None, "daily"},
     recurrence_interval : {NoInterval},
     due_date : {NoDueArg, DueArg(Jan31, "Z"), DueArg(Jan31, None)},
     reminder_offset : {<<>>, ONE_HOUR_BEFORE, TWO_DAYS_BEFORE, HOUR_BEFORE, ONE_HOUR_AFTER}]
    \cup
    [user_id : {"u1"}, title : {PAY_RENT}, priority : {"normal"},
     recurrence_pattern : {None, "weekly", "yearly"},
     recurrence_interval : {Interval(0), Interval(2), Interval(53)},
     due_date : {NoDueArg}, reminder_offset : {<<>>}]
    \cup
    [user_id : {"u1", "u2", ""}, title : {PAY_RENT, <<" ">>}, priority : {"high", "urgent"},
     recurrence_pattern : {None}, recurrence_interval : {NoInterval},
     due_date : {BadDueArg, DueArg(Jan31, "Z")}, reminder_offset : {<<>>}]

Success(task) == [status |-> "success", task_id |-> task.id, error |-> None]
Error(message) == [status |-> "error", task_id |-> 0, error |-> message]

\* `if recurrence_pattern and recurrence_interval is None: recurrence_interval = 1`
default_interval(a) ==
    IF a.recurrence_pattern # None /\ ~a.recurrence_interval.given
    THEN Interval(1) ELSE a.recurrence_interval

\* valid_patterns of add_task: the offset has to contain one of them
valid_patterns ==
    { HOUR \o <<" ">> \o BEFORE, HOUR \o <<"s", " ">> \o BEFORE,
      MINUTE \o <<" ">> \o BEFORE, MINUTE \o <<"s", " ">> \o BEFORE,
      DAY \o <<" ">> \o BEFORE, DAY \o <<"s", " ">> \o BEFORE }

\* the checks of add_task that run before the session is opened: the error
\* message of the first that fails, None when all pass
add_task_validation(a) ==
    LET interval == default_interval(a)
        has_interval == interval.given /\ interval.n # 0
    IN IF a.title = <<>> \/ Len(strip(a.title)) = 0
         THEN "Title must be between 1 and 200 characters"
       ELSE IF Len(a.title) > 200
         THEN "Title must be between 1 and 200 characters"
       ELSE IF a.user_id = ""
         THEN "User ID must be between 1 and 255 characters"
       ELSE IF a.priority \notin {"low", "normal", "high", "critical"}
         THEN "Priority must be one of: low, normal, high, critical"
       ELSE IF a.recurrence_pattern # None /\ ~has_interval
         THEN "recurrence_interval is required when recurrence_pattern is specified"
       ELSE IF has_interval /\ a.recurrence_pattern = None
         THEN "recurrence_pattern is required when recurrence_interval is specified"
       ELSE IF /\ a.recurrence_pattern # None
               /\ validate_recurrence_pattern(a.recurrence_pattern, interval.n).kind = "raise"
         THEN "ValueError"
       ELSE IF a.due_date.kind = "bad"
         THEN "Invalid due_date format"
       ELSE IF a.reminder_offset # <<>> /\ a.due_date.kind = "none"
         THEN "reminder_offset requires due_date to be specified"
       ELSE IF /\ a.reminder_offset # <<>>
               /\ ~\E pattern \in valid_patterns : Contains(lower(a.reminder_offset), pattern)
         THEN "Invalid reminder_offset format"
       ELSE None

\* RecurrenceRule(id=uuid4(), pattern=..., interval=..., metadata=...): the
\* row is built without task_id and user_id
AddedRule(pattern, interval) ==
    [pattern |-> pattern, interval |-> interval, task_id |-> None, user_id |-> None]

\* session.flush() of a new recurrence rule: the INSERT is rejected when a
\* column declared NOT NULL (task_id, user_id) has no value
flush_raises(rule) == rule.task_id = None \/ rule.user_id = None

\* Task(...) as add_task builds it; session.flush() gives it its id
AddedTask(id, a) ==
    [ id |-> id,
      user_id |-> a.user_id,
      title |-> strip(a.title),
      description |-> None,
      completed |-> FALSE,
      priority |-> a.priority,
      tags |-> <<>>,
      due_date |-> a.due_date.dt,
      recurrence_id |-> None ]

\* Reminder(...) as add_task builds it
AddedReminder(task, reminder_time) ==
    [task_id |-> task.id, status |-> "pending", sent_at |-> 0, retry_count |-> 0,
     user_id |-> task.user_id, reminder_time |-> reminder_time.ts]

\* the table with one more row
WithRow(rs, id, row) == [r \in DOMAIN rs \cup {id} |-> IF r = id THEN row ELSE rs[r]]

\* `if offset:` a timedelta of zero length is falsy, as None is
truthy_offset(offset) == offset # NoTimedelta /\ offset.seconds # 0

\* what add_task answers once the reminder is committed, given what
\* schedule_reminder_job returned
after_scheduling_fail_on_false(task, reminder_scheduled) ==
    IF reminder_scheduled THEN Success(task) ELSE Error("Failed to schedule reminder")
after_scheduling(task, reminder_scheduled) == Success(task)

\* the job schedule_reminder_job registers: job_name reminder-<reminder_id>,
\* data {reminder_id, task_id, ...}
job_data(reminder_id, task) == [reminder_id |-> reminder_id, task_id |-> task.id]

\* whether a call goes on towards schedule_reminder_job: it stands after
\* _session.commit(), which it passes only if the commit returns
schedule_reached_before_commit(commit_ok) == TRUE
schedule_reached(commit_ok) == commit_ok

\* `reminder_id = None`: the call stores no reminder
NoReminderId == 0

\* an add_task call that has committed its task (and its reminder, unless
\* reminder_id is NoReminderId) and has the refresh of its rows before it
Refreshing(task, reminder_id) ==
    [fn |-> "add_task", pc |-> "refresh", task |-> task, reminder_id |-> reminder_id]

\* an add_task call that has refreshed task and reminder and has
\* schedule_reminder_job before it
Scheduling(task, reminder_id) ==
    [fn |-> "add_task", pc |-> "schedule", task |-> task, reminder_id |-> reminder_id]

\* add_task, from its first check to an early return or to the commit of
\* the task (and of the reminder, where one is stored); clock is what
\* datetime.now(UTC) reads, commit_ok whether _session.commit() returns (it
\* raises on a store error)
AddTask(k, a, clock, commit_ok) ==
    /\ call[k] = NoCall
    /\ Cardinality(tasks) < MaxTasks
    /\ uuids < MaxTasks + 2
    /\ LET message == add_task_validation(a)
           task == AddedTask(uuids + 1, a)
           parsed_due_date == fromisoformat(a.due_date)
           offset == parse_reminder_offset(a.reminder_offset)
           reminder_time == calculate_reminder_time(parsed_due_date, offset)
           checked == validate_reminder_offset(a.reminder_offset, parsed_due_date, clock)
           reminder_id == uuids + 2
           \* `if reminder_offset and parsed_due_date:` and `if offset:`
           with_offset == /\ a.reminder_offset # <<>> /\ a.due_date.kind # "none"
                          /\ truthy_offset(offset)
       IN IF message # None THEN
               \* an early return: nothing was opened
               /\ ret' = Return(Error(message))
               /\ UNCHANGED <<tasks, reminders, uuids, call>>
          ELSE IF /\ a.recurrence_pattern # None
                  /\ flush_raises(AddedRule(a.recurrence_pattern, default_interval(a).n)) THEN
               \* session.flush() of the rule raises: except Exception, the
               \* session closes without a commit
               /\ ret' = Return(Error("Failed to create task"))
               /\ UNCHANGED <<tasks, reminders, uuids, call>>
          ELSE IF ~with_offset THEN
               IF ~commit_ok THEN
                    \* _session.commit() raises: except Exception, nothing is stored
                    /\ ret' = Return(Error("Failed to create task"))
                    /\ UNCHANGED <<tasks, reminders, uuids, call>>
               ELSE \* no reminder asked for, or "Invalid offset format - skip
                    \* reminder creation but create task": commit the task
                    /\ tasks' = tasks \cup {task}
                    /\ uuids' = uuids + 1
                    /\ ret' = NoRet
                    /\ call' = [call EXCEPT ![k] = Refreshing(task, NoReminderId)]
                    /\ UNCHANGED reminders
          ELSE IF checked.kind = "raise" THEN
               \* except Exception: the session closes without a commit
               /\ ret' = Return(Error("Failed to create task"))
               /\ UNCHANGED <<tasks, reminders, uuids, call>>
          ELSE IF ~checked.value[1] THEN
               IF ~commit_ok THEN
                    /\ ret' = Return(Error("Failed to create task"))
                    /\ UNCHANGED <<tasks, reminders, uuids, call>>
               ELSE \* "Invalid reminder time - skip reminder creation but create task"
                    /\ tasks' = tasks \cup {task}
                    /\ uuids' = uuids + 1
                    /\ ret' = NoRet
                    /\ call' = [call EXCEPT ![k] = Refreshing(task, NoReminderId)]
                    /\ UNCHANGED reminders
          ELSE \* commit task and reminder
               /\ IF commit_ok
                  THEN /\ tasks' = tasks \cup {task}
                       /\ reminders' = WithRow(reminders, reminder_id,
                                               AddedReminder(task, reminder_time))
                       /\ uuids' = uuids + 2
                       /\ ret' = NoRet
                  ELSE /\ ret' = Return(Error("Failed to create task"))
                       /\ UNCHANGED <<tasks, reminders, uuids>>
               /\ call' = [call EXCEPT ![k] = IF schedule_reached(commit_ok)
                                               THEN Refreshing(task, reminder_id) ELSE NoCall]
    /\ UNCHANGED <<jobs, genVars, disp, disp_resp, blocking, webhook_ok, triggers, hubVars>>

\* _session.refresh(task), and _session.refresh(reminder) where a reminder
\* was stored: SELECTs after the commit, each raising InvalidRequestError
\* when its row is gone (except Exception: "Failed to create task").  A
\* call without reminder returns its success response, built from the
\* refreshed task; a call with one has schedule_reminder_job before it.
AddTaskRefreshed(k) ==
    /\ call[k].fn = "add_task"
    /\ call[k].pc = "refresh"
    /\ LET task == TaskById(tasks, call[k].task.id)
           t == CHOOSE t \in task : TRUE
       IN IF task = {} \/ (call[k].reminder_id # NoReminderId /\ ~RowExists(reminders, call[k].reminder_id))
          THEN /\ ret' = Return(Error("Failed to create task"))
               /\ call' = [call EXCEPT ![k] = NoCall]
          ELSE IF call[k].reminder_id = NoReminderId
          THEN /\ ret' = Return(Success(t))
               /\ call' = [call EXCEPT ![k] = NoCall]
          ELSE /\ ret' = NoRet
               /\ call' = [call EXCEPT ![k] = Scheduling(t, call[k].reminder_id)]
    /\ UNCHANGED <<tasks, jobs, uuids, genVars, remVars, hubVars>>

\* schedule_reminder_job(reminder.id, task.id, ...) and the return of the
\* add_task call; scheduler_ok: whether dapr.schedule_job returns
\* (schedule_reminder_job answers False when it raises)
AddTaskScheduled(k, scheduler_ok) ==
    /\ call[k].fn = "add_task"
    /\ call[k].pc = "schedule"
    /\ jobs' = IF scheduler_ok THEN jobs \cup {job_data(call[k].reminder_id, call[k].task)} ELSE jobs
    /\ ret' = Return(after_scheduling(call[k].task, scheduler_ok))
    /\ call' = [call EXCEPT ![k] = NoCall]
    /\ UNCHANGED <<tasks, uuids, genVars, remVars, hubVars>>

(***************************************************************************)
(* Backend API: delete_task and update_task (tools/server.py)              *)
(***************************************************************************)
\* what the store does with the reminders of a task that is deleted: the
\* migrated schema deletes them with it (reminders.task_id ON DELETE
\* CASCADE); the schema SQLModel.metadata.create_all builds from models.py
\* has the foreign key without that rule, so the delete is refused where
\* foreign keys are enforced and leaves the rows behind where they are not
ForeignKeys == {"cascade", "restrict", "unenforced"}

Referencing(rs, task_id) == {r \in DOMAIN rs : rs[r].task_id = task_id}
WithoutRows(rs, ids) == [r \in DOMAIN rs \ ids |-> rs[r]]

\* a delete_task call that has found its task and passed the ownership
\* check, with session.delete(task); session.commit() before it: the DELETE
\* names the row by the primary key of the loaded object
Deleting(task) == [fn |-> "delete_task", pc |-> "delete", task |-> [id |-> task.id]]

\* delete_task called by user_id for the task with id task_id, up to the
\* ownership check
DeleteTaskFound(k, user_id, task_id) ==
    /\ call[k] = NoCall
    /\ LET task == TaskById(tasks, task_id)
           t == CHOOSE t \in task : TRUE
       IN IF user_id = "" THEN
               /\ ret' = Return(Error("User ID must be between 1 and 255 characters"))
               /\ UNCHANGED call
          ELSE IF task = {} THEN
               /\ ret' = Return(Error("Task not found"))
               /\ UNCHANGED call
          ELSE IF t.user_id # user_id THEN
               /\ ret' = Return(Error("Unauthorized: Task does not belong to user"))
               /\ UNCHANGED call
          ELSE /\ ret' = NoRet
               /\ call' = [call EXCEPT ![k] = Deleting(t)]
    /\ UNCHANGED <<tasks, jobs, uuids, genVars, remVars, hubVars>>

\* session.delete(task); session.commit() and the return: a DELETE that
\* finds its row gone only draws a warning from the ORM, and the success
\* response is built from the task id the caller gave
DeleteTaskCommitted(k, fk) ==
    /\ call[k].fn = "delete_task"
    /\ LET row == TaskById(tasks, call[k].task.id)
           rows == Referencing(reminders, call[k].task.id)
       IN IF row # {} /\ fk = "restrict" /\ rows # {} THEN
               \* the commit raises IntegrityError: except Exception
               /\ ret' = Return(Error("Failed to delete task"))
               /\ UNCHANGED <<tasks, reminders>>
          ELSE /\ tasks' = tasks \ row
               /\ reminders' = IF row # {} /\ fk = "cascade"
                               THEN WithoutRows(reminders, rows) ELSE reminders
               /\ ret' = Return(Success(call[k].task))
    /\ call' = [call EXCEPT ![k] = NoCall]
    /\ UNCHANGED <<jobs, uuids, genVars, disp, disp_resp, blocking, webhook_ok,
                   triggers, hubVars>>

\* the arguments of update_task besides the task id; a title of <<>> and a
\* priority, pattern or due date of None are arguments left out.
\* description and tags are left out (None) in every call.
Update(user_id, title, priority, due_date, pattern, interval) ==
    [user_id |-> user_id, title |-> title, priority |-> priority, due_date |-> due_date,
     recurrence_pattern |-> pattern, recurrence_interval |-> interval]

\* the checks of update_task that run before the session is opened: the
\* error message of the first that fails, None when all pass
update_task_validation(u) ==
    LET interval == default_interval(u)
        has_interval == interval.given /\ interval.n # 0
    IN IF u.user_id = ""
         THEN "User ID must be between 1 and 255 characters"
       ELSE IF /\ u.title = <<>> /\ u.recurrence_pattern = None
               /\ ~u.recurrence_interval.given /\ u.due_date.kind = "none"
               /\ u.priority = None
         THEN "Must provide at least one field to update"
       ELSE IF Len(u.title) > 200
         THEN "Title must be 200 characters or less"
       ELSE IF u.priority # None /\ u.priority \notin {"low", "normal", "high", "critical"}
         THEN "Priority must be one of: low, normal, high, critical"
       ELSE IF u.recurrence_pattern # None /\ ~has_interval
         THEN "recurrence_interval is required when recurrence_pattern is specified"
       ELSE IF has_interval /\ u.recurrence_pattern = None
         THEN "recurrence_pattern is required when recurrence_interval is specified"
       ELSE IF /\ u.recurrence_pattern # None
               /\ validate_recurrence_pattern(u.recurrence_pattern, interval.n).kind = "raise"
         THEN "ValueError"
       ELSE IF u.due_date.kind = "bad"
         THEN "Invalid due_date format"
       ELSE None

\* the recurrence part of update_task raises: for a task with a stored rule
\* `recurrence_rule.metadata = ...` is refused (the model class has no field
\* metadata), for a task without one the new rule's flush is
recurrence_update_raises(task, u) ==
    /\ u.recurrence_pattern # None
    /\ default_interval(u).n # 0
    /\ IF task.recurrence_id # None
       THEN task.recurrence_id \in DOMAIN rules
       ELSE flush_raises(AddedRule(u.recurrence_pattern, default_interval(u).n))

\* `if title: task.title = title.strip()` ... `if parsed_due_date: ...`
UpdatedTask(task, u) ==
    [task EXCEPT !.title = IF u.title # <<>> THEN strip(u.title) ELSE @,
                 !.priority = IF u.priority # None THEN u.priority ELSE @,
                 !.due_date = IF u.due_date.kind = "iso" THEN u.due_date.dt ELSE @]

\* session.commit() of update_task: the UPDATE sets the columns whose
\* value the call changed on the object it loaded
UpdatedRow(row, loaded, u) ==
    LET new == UpdatedTask(loaded, u)
    IN [row EXCEPT !.title = IF new.title # loaded.title THEN new.title ELSE @,
                   !.priority = IF new.priority # loaded.priority THEN new.priority ELSE @,
                   !.due_date = IF new.due_date # loaded.due_date THEN new.due_date ELSE @]

\* an update_task call with the task it loaded; pc: the commit is before
\* it, or the refresh that follows the commit
Updating(pc, task, u) == [fn |-> "update_task", pc |-> pc, task |-> task, u |-> u]

\* update_task called for the task with id task_id, up to the assignments
\* that precede the commit
UpdateTask(k, u, task_id) ==
    /\ call[k] = NoCall
    /\ LET message == update_task_validation(u)
           task == TaskById(tasks, task_id)
           t == CHOOSE t \in task : TRUE
       IN IF message # None THEN
               /\ ret' = Return(Error(message))
               /\ UNCHANGED call
          ELSE IF task = {} THEN
               /\ ret' = Return(Error("Task not found"))
               /\ UNCHANGED call
          ELSE IF t.user_id # u.user_id THEN
               /\ ret' = Return(Error("Unauthorized: Task does not belong to user"))
               /\ UNCHANGED call
          ELSE IF recurrence_update_raises(t, u) THEN
               \* except Exception: the session closes without a commit
               /\ ret' = Return(Error("Failed to update task"))
               /\ UNCHANGED call
          ELSE /\ ret' = NoRet
               /\ call' = [call EXCEPT ![k] = Updating("commit", t, u)]
    /\ UNCHANGED <<tasks, jobs, uuids, genVars, remVars, hubVars>>

\* session.commit(): updated_at is always assigned, so an UPDATE is always
\* sent; it raises StaleDataError when the row is gone (except Exception:
\* "Failed to update task")
UpdateTaskCommitted(k) ==
    /\ call[k].fn = "update_task"
    /\ call[k].pc = "commit"
    /\ LET row == TaskById(tasks, call[k].task.id)
           t == CHOOSE t \in row : TRUE
       IN IF row = {}
          THEN /\ ret' = Return(Error("Failed to update task"))
               /\ call' = [call EXCEPT ![k] = NoCall]
               /\ UNCHANGED tasks
          ELSE /\ tasks' = (tasks \ row) \cup {UpdatedRow(t, call[k].task, call[k].u)}
               /\ ret' = NoRet
               /\ call' = [call EXCEPT ![k] = Updating("refresh", call[k].task, call[k].u)]
    /\ UNCHANGED <<jobs, uuids, genVars, remVars, hubVars>>

\* session.refresh(task) after the commit, which raises InvalidRequestError
\* when the row is gone (except Exception: "Failed to update task"), the
\* query for the task's rule, and the success response
UpdateTaskRefreshed(k) ==
    /\ call[k].fn = "update_task"
    /\ call[k].pc = "refresh"
    /\ ret' = IF TaskById(tasks, call[k].task.id) = {}
              THEN Return(Error("Failed to update task"))
              ELSE Return(Success(call[k].task))
    /\ call' = [call EXCEPT ![k] = NoCall]
    /\ UNCHANGED <<tasks, jobs, uuids, genVars, remVars, hubVars>>

(***************************************************************************)
(* Event bodies as the transport posts them, and the two consumers         *)
(***************************************************************************)
\* a JSON value posted as a body or held by a `data` member: an object with
\* the event fields it carries itself (own; NoEvent: none) and its `data`
\* member, null, or no value at all (the key is absent)
AbsentKey == [json |-> "absent"]
JsonNull == [json |-> "null"]
JsonObject(own, data) == [json |-> "object", own |-> own, data |-> data]

Flat(e) == JsonObject(e, AbsentKey)
Wrapped(body) == JsonObject(NoEvent, body)

\* event_data = event.get("data", event); a body that is not an object has
\* no get(), which the handlers' `except Exception` catches
event_data_never_unwrapped(body) == body
event_data(body) ==
    IF body.json = "object" /\ body.data.json # "absent" THEN body.data ELSE body

\* bodies posted to the recurring task service: the envelopes of EventInputs,
\* which have no member named `data` of their own, and a body that is no object
BodyInputs ==
    { Flat(e) : e \in EventInputs }
    \cup {JsonNull}

\* bodies posted to the WebSocket service: update events of either owner or
\* of none
UpdateInputs ==
    { Flat(Event(ev_type, u, None, NoDue, AttrsB)) : u \in Users \cup {None} }
    \cup {JsonNull}

\* handle_task_event on a posted body
GenDeliver(w, body) ==
    IF event_data(body).json = "object"
    THEN GenReceive(w, event_data(body).own)
    ELSE /\ gen[w].pc = "idle"
         /\ gen_resp' = [gen_resp EXCEPT ![w] = Resp("DROP", "AttributeError")]
         /\ UNCHANGED <<apiVars, tasks, gen, published, handled, remVars, hubVars>>

\* a body that is no JSON text: `await request.json()` raises JSONDecodeError
JsonInvalid == [json |-> "invalid"]

\* everything posted to the WebSocket service
PostedInputs == UpdateInputs \cup {JsonInvalid}

\* the path handle_task_update takes on a posted body
handle_task_update_path(body) ==
    IF body.json = "invalid" THEN "JSONDecodeError"
    ELSE IF event_data(body).json # "object" THEN "Exception"
    ELSE IF event_data(body).own.user_id = None THEN "missing user_id"
    ELSE "broadcast"

\* handle_task_update on a posted body: the event is broadcast when its data
\* is an object with a user_id; the other paths return their Response at once
HandleTaskUpdate(h, body) ==
    IF handle_task_update_path(body) = "broadcast"
    THEN BroadcastStart(h, event_data(body).own.user_id)
    ELSE /\ bc[h].pc \in {"idle", "done"}
         /\ bc' = [bc EXCEPT ![h] = [BcIdle EXCEPT !.pc = "done",
                       !.status_code = status_code(handle_task_update_path(body))]]
         /\ UNCHANGED <<apiVars, tasks, genVars, remVars, active_connections,
                        connection_timestamps, now, ws, frames, accepted_at>>

(***************************************************************************)
(* Initial states and specifications                                       *)
(***************************************************************************)
InitGen ==
    /\ gen = [w \in Workers |-> GenIdle]
    /\ gen_resp = [w \in Workers |-> NoResp]
    /\ published = {}
    /\ handled = 0

InitDisp ==
    /\ disp = [p \in Procs |-> DispIdle]
    /\ disp_resp = [p \in Procs |-> NoResp]
    /\ blocking = NoProc
    /\ webhook_ok = [r \in ReminderIds |-> 0]
    /\ triggers = [r \in ReminderIds |-> 0]

\* one pending reminder, for task 1
InitRem ==
    /\ reminders = [r \in ReminderIds |->
                      [task_id |-> 1, status |-> "pending",
                       sent_at |-> 0, retry_count |-> 0]]
    /\ InitDisp

\* no reminder stored
InitNoRem == reminders = <<>> /\ InitDisp

InitHub ==
    /\ active_connections = <<>>
    /\ connection_timestamps = [u \in Users |-> <<>>]
    /\ now = 0
    /\ ws = [s \in Sockets |-> WsNew]
    /\ bc = [h \in Handlers |-> BcIdle]
    /\ frames = [s \in Sockets |-> {}]
    /\ accepted_at = [u \in Users |-> <<>>]

InitApi ==
    /\ call = [k \in ApiWorkers |-> NoCall]
    /\ ret = NoRet
    /\ jobs = {}
    /\ uuids = 0

\* the task the reminder of InitRem was created for
ReminderTask(id, user) ==
    [ id |-> id, user_id |-> user, title |-> "Pay rent", description |-> "flat",
      completed |-> FALSE, priority |-> "normal", tags |-> <<>>, due_date |-> Jan31,
      recurrence_id |-> None ]

\* Recurring Task Service, deliveries interleaved across service instances
InitG == tasks = {} /\ InitGen /\ InitNoRem /\ InitHub /\ InitApi
NextGen ==
    \/ \E w \in Workers, e \in EventInputs : GenReceive(w, e)
    \/ \E w \in Workers, commit_ok \in BOOLEAN : GenInsert(w, commit_ok)
    \/ \E w \in Workers : GenRefreshed(w)
    \/ \E t \in tasks : CompleteTask(t)
SpecGen == InitG /\ [][NextGen]_vars

\* Recurring Task Service, one delivery at a time, beside the API's
\* complete_task and delete_task calls of the tasks' owners
NextGenSeq ==
    \/ \E w \in Workers, e \in EventInputs :
          (\A v \in Workers : gen[v].pc = "idle") /\ GenReceive(w, e)
    \/ \E w \in Workers, commit_ok \in BOOLEAN : GenInsert(w, commit_ok)
    \/ \E w \in Workers : GenRefreshed(w)
    \/ \E t \in tasks : CompleteTask(t)
    \/ \E t \in tasks : DeleteTaskFound("a1", t.user_id, t.id)
    \/ DeleteTaskCommitted("a1", "cascade")
SpecGenSeq == InitG /\ [][NextGenSeq]_vars

\* Notification Service.  What the store answers is an input of the two
\* commits of retry_count, whose failure the code handles itself.
InitR == tasks = {ReminderTask(1, "u1")} /\ InitGen /\ InitRem /\ InitHub /\ InitApi
NextRem ==
    \/ \E p \in Procs, rid \in ReminderInputs : DispatchStart(p, rid)
    \/ \E p \in Procs : DispatchTaskLoaded(p)
    \/ \E p \in Procs : DispatchSkipCommitted(p)
    \/ \E p \in Procs, answer \in WebhookAnswers : DispatchPostDone(p, answer)
    \/ \E p \in Procs, store_ok \in BOOLEAN : DispatchCounted(p, store_ok)
    \/ \E p \in Procs : DispatchClientClosed(p)
    \/ \E p \in Procs : DispatchRefreshed(p)
    \/ \E p \in Procs, store_ok \in BOOLEAN : DispatchTallied(p, store_ok)
    \/ \E p \in Procs : DispatchFailCommitted(p)
    \/ \E p \in Procs : DispatchFailReturned(p)
    \/ \E p \in Procs : DispatchWake(p)
    \/ \E t \in tasks : CompleteTask(t)
    \/ \E t \in tasks : DeleteTaskFound("a1", t.user_id, t.id)
    \/ \E fk \in ForeignKeys \ {"restrict"} : DeleteTaskCommitted("a1", fk)
SpecRem == InitR /\ [][NextRem]_vars

\* WebSocket Service within one rate-limit window
InitH == tasks = {} /\ InitGen /\ InitNoRem /\ InitHub /\ InitApi
NextHub ==
    \/ \E s \in HubSockets, u \in Users, tok \in TokenInputs : EndpointConnect(s, u, tok)
    \/ \E s \in HubSockets : EndpointAccepted(s)
    \/ \E s \in HubSockets : EndpointWelcomed(s)
    \/ \E s \in HubSockets : EndpointPing(s)
    \/ \E s \in HubSockets : EndpointClosed(s)
    \/ \E h \in HubHandlers, u \in Users : BroadcastStart(h, u)
    \/ \E h \in HubHandlers, c \in HubSockets, ok \in BOOLEAN : BroadcastSend(h, c, ok)
SpecHub == InitH /\ [][NextHub]_vars

\* WebSocket Service admission over time, one owner reconnecting
NextRate ==
    \/ \E s \in Sockets : EndpointConnect(s, "u1", "none")
    \/ \E s \in Sockets : EndpointAccepted(s)
    \/ \E s \in Sockets : EndpointWelcomed(s)
    \/ \E s \in Sockets : EndpointClosed(s)
    \/ \E s \in Sockets : SocketFreed(s)
    \/ Tick
SpecRate == InitH /\ [][NextRate]_vars

\* WebSocket Service admission over time: one owner reconnecting, with no
\* token or with another owner's token.  The service has been running: the
\* owner's earlier connections, accepted two thirds of a window before the
\* first step and closed since, leave room in the window for max_per_user
\* accepts: the owner can reach the connection limit and the rate limit.
EarlierAccepts ==
    [i \in 1..(MAX_CONNECTIONS_PER_WINDOW - max_per_user) |->
        0 - (2 * CONNECTION_RATE_LIMIT_WINDOW) \div 3]
InitAdmission ==
    /\ tasks = {} /\ InitGen /\ InitNoRem /\ InitApi
    /\ active_connections = <<>>
    /\ connection_timestamps = [u \in Users |-> IF u = "u1" THEN EarlierAccepts ELSE <<>>]
    /\ accepted_at = [u \in Users |-> IF u = "u1" THEN EarlierAccepts ELSE <<>>]
    /\ now = 0
    /\ ws = [s \in Sockets |-> WsNew]
    /\ bc = [h \in Handlers |-> BcIdle]
    /\ frames = [s \in Sockets |-> {}]
NextAdmission ==
    \* no broadcast runs here, so a closed socket takes part in nothing any
    \* more: its place is freed before anything else happens
    \/ \E s \in Sockets : SocketFreed(s)
    \/ (\A r \in Sockets : ws[r].pc # "closed") /\ \E s \in Sockets, tok \in {"none", "u2"} : EndpointConnect(s, "u1", tok)
    \/ (\A r \in Sockets : ws[r].pc # "closed") /\ \E s \in Sockets : EndpointAccepted(s)
    \/ (\A r \in Sockets : ws[r].pc # "closed") /\ \E s \in Sockets : EndpointWelcomed(s)
    \/ (\A r \in Sockets : ws[r].pc # "closed") /\ \E s \in Sockets : EndpointClosed(s)
    \/ (\A r \in Sockets : ws[r].pc # "closed") /\ Tick
SpecAdmission == InitAdmission /\ [][NextAdmission]_vars

\* RecurrenceService and ReminderService: one call of a pure function
InitP ==
    /\ tasks = {} /\ InitGen /\ InitNoRem /\ InitHub
    /\ call \in CallInputs
    /\ ret = NoRet
    /\ jobs = {}
    /\ uuids = 0
NextPure ==
    \/ CallCalculateNextOccurrence
    \/ CallAgain
    \/ CallValidateRecurrencePattern
    \/ CallParseReminderOffset
    \/ CallValidateReminderOffset
SpecPure == InitP /\ [][NextPure]_vars

\* Backend API: add_task calls, one at a time, on an empty store
InitA == tasks = {} /\ InitGen /\ InitNoRem /\ InitHub /\ InitApi
NextApi ==
    \/ \E a \in AddTaskInputs, clock \in ClockInputs, commit_ok \in BOOLEAN :
          AddTask("a1", a, clock, commit_ok)
    \/ AddTaskRefreshed("a1")
    \/ \E scheduler_ok \in BOOLEAN : AddTaskScheduled("a1", scheduler_ok)
SpecApi == InitA /\ [][NextApi]_vars

\* Backend API: calls of add_task, update_task and delete_task from both
\* owners, served by two workers against the shared store, each call
\* statement by statement: worker a1 serves calls of all three functions,
\* worker a2 delete_task calls for stored tasks by their owners
RENT == <<"R", "e", "n", "t">>
StoreAddInputs ==
    [user_id : {"u1"}, title : {<<" ">> \o PAY_RENT}, priority : {"normal"},
     recurrence_pattern : {None, "daily"}, recurrence_interval : {NoInterval},
     due_date : {DueArg(Jan31, "Z")}, reminder_offset : {<<>>, ONE_HOUR_BEFORE}]
TaskUpdateInputs ==
    { Update("u1", <<" ">> \o RENT \o <<" ">>, None, DueArg(Feb01, None), None, NoInterval),
      Update("u1", <<>>, "urgent", NoDueArg, None, NoInterval),
      Update("u1", <<>>, None, NoDueArg, "daily", NoInterval),
      Update("u1", <<>>, None, NoDueArg, None, NoInterval),
      Update("u2", <<>>, "high", NoDueArg, None, NoInterval) }
\* the ids a call may name: those of the stored tasks and one of no task
TaskIdInputs == {t.id : t \in tasks} \cup {0}
NextStore ==
    \/ \E a \in StoreAddInputs, commit_ok \in BOOLEAN :
          AddTask("a1", a, SetMin(ClockInputs), commit_ok)
    \/ AddTaskRefreshed("a1")
    \/ \E scheduler_ok \in BOOLEAN : AddTaskScheduled("a1", scheduler_ok)
    \/ \E u \in TaskUpdateInputs, id \in TaskIdInputs : UpdateTask("a1", u, id)
    \/ UpdateTaskCommitted("a1")
    \/ UpdateTaskRefreshed("a1")
    \/ \E user_id \in Users, id \in TaskIdInputs : DeleteTaskFound("a1", user_id, id)
    \/ \E t \in tasks : DeleteTaskFound("a2", t.user_id, t.id)
    \/ \E k \in ApiWorkers, fk \in ForeignKeys : DeleteTaskCommitted(k, fk)
SpecStore == InitA /\ [][NextStore]_vars

\* Both consumers fed with posted bodies, flat and wrapped under `data`.  The
\* two services share no state, so a behaviour exercises one of them: the
\* generator while the hub has not been touched, or the hub while the
\* generator has not been.
GenUntouched ==
    tasks = {} /\ gen = [w \in Workers |-> GenIdle] /\ gen_resp = [w \in Workers |-> NoResp]
HubUntouched == ws = [s \in Sockets |-> WsNew] /\ bc = [h \in Handlers |-> BcIdle]
NextEnvelope ==
    \/ HubUntouched /\ \E w \in Workers, b \in BodyInputs : GenDeliver(w, b)
    \/ HubUntouched /\ \E w \in Workers, b \in BodyInputs : GenDeliver(w, Wrapped(b))
    \/ \E w \in Workers, commit_ok \in BOOLEAN : GenInsert(w, commit_ok)
    \/ \E w \in Workers : GenRefreshed(w)
    \/ GenUntouched /\ \E s \in HubSockets, u \in Users : EndpointConnect(s, u, "none")
    \/ \E s \in HubSockets : EndpointAccepted(s)
    \/ \E s \in HubSockets : EndpointWelcomed(s)
    \/ GenUntouched /\ \E h \in HubHandlers, b \in UpdateInputs : HandleTaskUpdate(h, b)
    \/ GenUntouched /\ \E h \in HubHandlers, b \in UpdateInputs : HandleTaskUpdate(h, Wrapped(b))
    \/ \E h \in HubHandlers, c \in HubSockets : BroadcastSend(h, c, TRUE)
SpecEnvelope == InitG /\ [][NextEnvelope]_vars

\* WebSocket Service fed with posted bodies while clients connect and leave
NextUpdate ==
    \/ \E s \in HubSockets, u \in Users : EndpointConnect(s, u, "none")
    \/ \E s \in HubSockets : EndpointAccepted(s)
    \/ \E s \in HubSockets : EndpointWelcomed(s)
    \/ \E s \in HubSockets : EndpointClosed(s)
    \/ \E h \in HubHandlers, b \in PostedInputs : HandleTaskUpdate(h, b)
    \/ \E h \in HubHandlers, c \in HubSockets, ok \in BOOLEAN : BroadcastSend(h, c, ok)
SpecUpdate == InitH /\ [][NextUpdate]_vars

\* WebSocket Service with clients that connect and then send nothing.  The
\* event loop resumes every endpoint whose await has completed and time
\* passes (past MaxTime without changing the state); a client may close at
\* any time but need not.
NextIdle ==
    \/ \E s \in HubSockets, u \in Users : EndpointConnect(s, u, "none")
    \/ \E s \in HubSockets : EndpointAccepted(s)
    \/ \E s \in HubSockets : EndpointWelcomed(s)
    \/ \E s \in HubSockets : EndpointClosed(s)
    \/ Tick
\* WebSocket Service, one owner, with two update events handled at once
NextRace ==
    \/ \E s \in HubSockets : EndpointConnect(s, "u1", "none")
    \/ \E s \in HubSockets : EndpointAccepted(s)
    \/ \E s \in HubSockets : EndpointWelcomed(s)
    \/ \E s \in HubSockets : EndpointClosed(s)
    \/ \E h \in Handlers : BroadcastStart(h, "u1")
    \/ \E h \in Handlers, c \in HubSockets, ok \in BOOLEAN : BroadcastSend(h, c, ok)
SpecRace == InitH /\ [][NextRace]_vars

SpecIdle ==
    /\ InitH /\ [][NextIdle]_vars
    /\ \A s \in HubSockets : WF_vars(EndpointAccepted(s)) /\ WF_vars(EndpointWelcomed(s))
    /\ WF_vars(Tick)

(***************************************************************************)
(* Properties                                                              *)
(***************************************************************************)
SameOccurrence(t1, t2) ==
    /\ t1.recurrence_id # None
    /\ t1.recurrence_id = t2.recurrence_id
    /\ t1.user_id = t2.user_id
    /\ t1.due_date = t2.due_date

\* C1: redelivering the same task.completed event, at any later point (also
\* after the generated instance was completed), never leaves more than one
\* task for a (recurrence_id, next due date, user_id).  Stated under
\* SpecGenSeq, where deliveries are handled one at a time.
C1_OneInstancePerOccurrence ==
    \A t1, t2 \in tasks : SameOccurrence(t1, t2) => t1.id = t2.id

\* C2: in every reachable state, deliveries running concurrently included, at
\* most one non-completed task exists per (recurrence_id, user_id, due_date).
C2_OneOpenInstancePerOccurrence ==
    \A t1, t2 \in tasks :
        (SameOccurrence(t1, t2) /\ ~t1.completed /\ ~t2.completed) => t1.id = t2.id

\* C3: once a reminder's status is sent or failed, no later dispatch step
\* changes it.
C3_TerminalStatusIsFinal ==
    [][\A r \in DOMAIN reminders \cap DOMAIN reminders' :
          reminders[r].status \in {"sent", "failed"}
              => reminders'[r].status = reminders[r].status]_vars

\* C4: a dispatch started for a reminder whose status is not pending ends at
\* once with success, without a webhook call and without changing the reminder.
C4_NotPendingIsNoOp ==
    [][\A r \in ReminderIds :
          (triggers'[r] = triggers[r] + 1 /\ reminders[r].status # "pending")
              => /\ reminders' = reminders
                 /\ webhook_ok' = webhook_ok
                 /\ \E p \in Procs :
                       /\ disp'[p].rid = r
                       /\ disp'[p].pc = "done"
                       /\ disp'[p].trace = <<>>
                       /\ disp_resp'[p].status = "success"
                       /\ \A q \in Procs \ {p} : disp'[q] = disp[q]]_vars

\* C5: whatever the number and overlap of triggers, the webhook gives at most
\* one 2xx answer per reminder.
C5_AtMostOneDelivery ==
    \A r \in ReminderIds : webhook_ok[r] <= 1

\* C6: the number of live connections registered for an owner never exceeds
\* max_per_user.
C6_LiveConnectionsBounded ==
    \A u \in DOMAIN active_connections :
        Cardinality(active_connections[u]) <= max_per_user

\* C7: no more than MAX_CONNECTIONS_PER_WINDOW connections of an owner are
\* accepted within any CONNECTION_RATE_LIMIT_WINDOW time units.
C7_AcceptsPerWindowBounded ==
    \A u \in Users : \A i \in 1..Len(accepted_at[u]) :
        Cardinality({ j \in 1..Len(accepted_at[u]) :
                        /\ accepted_at[u][j] > accepted_at[u][i] - CONNECTION_RATE_LIMIT_WINDOW
                        /\ accepted_at[u][j] <= accepted_at[u][i] })
            <= MAX_CONNECTIONS_PER_WINDOW

\* C8: a broadcast for owner A calls send_json only on sockets that were
\* registered under A, never on a socket of another owner.
C8_BroadcastIsolation ==
    \A h \in Handlers : \A c \in Sockets :
        bc[h].attempts[c] > 0
            => /\ ws[c].user = bc[h].user
               /\ ws[c].pc \in {"welcome", "open", "closed"}

\* C8 witness: a broadcast for u1 has sent to a socket while u2 holds a live
\* connection.
C8_Witness ==
    \E h \in Handlers : \E c1, c2 \in Sockets :
        /\ bc[h].pc = "done" /\ bc[h].user = "u1"
        /\ bc[h].attempts[c1] = 1
        /\ ws[c2].user = "u2" /\ ws[c2].pc = "open"
        /\ c2 \in Conns(active_connections, "u2")

\* C9: in one broadcast every connection that was in the owner's set when it
\* started is sent the message at most once, exactly once when the broadcast
\* has ended (so once if its send succeeds), and a connection registered later
\* is never sent it.
C9_FanOutOnceNoReplay ==
    \A h \in Handlers :
        /\ \A c \in Sockets \ bc[h].live_at_start : bc[h].attempts[c] = 0
        /\ \A c \in bc[h].live_at_start : bc[h].attempts[c] <= 1
        /\ bc[h].pc = "done" => \A c \in bc[h].live_at_start : bc[h].attempts[c] = 1
        /\ bc[h].sent_count <= Cardinality({c \in Sockets : bc[h].attempts[c] = 1})

\* C9 witness: a broadcast has ended after sending to the connection that was
\* live at its start, and a connection of the same owner that registered
\* after the start is live and was not sent the message.
C9_Witness ==
    \E h \in Handlers : \E c1, c2 \in Sockets :
        /\ bc[h].pc = "done"
        /\ c1 \in bc[h].live_at_start /\ bc[h].attempts[c1] = 1 /\ bc[h].sent_count = 1
        /\ c2 \notin bc[h].live_at_start
        /\ c2 \in Conns(active_connections, bc[h].user)
        /\ bc[h].attempts[c2] = 0

\* the only complete run of failures: POST, wait 2, POST, wait 4, POST, wait 8, POST
FailureRun == <<PostFail, Slept(2), PostFail, Slept(4), PostFail, Slept(8), PostFail>>

\* C10: one dispatch makes at most 4 POSTs, waits 2, 4, 8 after failed
\* attempts 1, 2, 3, does not wait after the 4th, and makes no POST (and no
\* wait) after the first 2xx.
C10_BoundedRetryWithBackoff ==
    \A p \in Procs :
        LET tr == disp[p].trace IN
        /\ Len(tr) <= Len(FailureRun)
        /\ \A i \in 1..Len(tr) :
              \/ tr[i] = FailureRun[i]
              \/ i = Len(tr) /\ i % 2 = 1 /\ tr[i] = PostOk

\* the run of three failed attempts and their waits that precedes the 4th POST
ThreeFailures == <<PostFail, Slept(2), PostFail, Slept(4), PostFail, Slept(8)>>

Posts(tr) == { i \in 1..Len(tr) : tr[i].kind = "post" }

\* the posts of a trace all failed but the last, which was answered 2xx
FirstOkIsLast(tr) ==
    /\ tr # <<>>
    /\ tr[Len(tr)] = PostOk
    /\ \A i \in Posts(tr) \ {Len(tr)} : tr[i] = PostFail

\* C11: when attempt n (1..4) is the first one the webhook answers with 2xx,
\* the dispatch makes no further attempt and ends with status sent, sent_at
\* set, retry_count = n - 1 and a success result.
C11_SuccessOutcome ==
    [][\A p \in Procs :
          LET d == disp[p]
              rid == d.rid
              n == Cardinality(Posts(d.trace))
          IN (FirstOkIsLast(d.trace) /\ disp'[p] # d)
             => /\ d.pc = "count"
                   => /\ disp'[p].delivered
                      /\ rid \in DOMAIN reminders'
                      /\ reminders'[rid].retry_count = n - 1
                /\ d.pc = "close"
                   => /\ disp'[p].pc = "refresh"
                      /\ rid \in DOMAIN reminders'
                      /\ reminders'[rid].status = "sent"
                      /\ reminders'[rid].sent_at # 0
                      /\ reminders'[rid].retry_count = n - 1
                /\ d.pc = "refresh"
                   => /\ disp'[p].pc = "done"
                      /\ disp_resp'[p].status = "success"]_vars

\* C12: when the 4th attempt fails after three failed attempts, the dispatch
\* ends with status failed, retry_count 4, sent_at unchanged and an error
\* result.
C12_ExhaustionOutcome ==
    [][\A p \in Procs :
          LET d == disp[p]
              rid == d.rid
          IN (d.trace = FailureRun /\ disp'[p] # d)
             => /\ d.pc = "close" => disp'[p].pc = "tally"
                /\ d.pc = "tally"
                   => /\ disp'[p].pc = "fail"
                      /\ rid \in DOMAIN reminders'
                      /\ reminders'[rid].retry_count = max_retries + 1
                      /\ reminders'[rid].sent_at = reminders[rid].sent_at
                /\ d.pc = "fail"
                   => /\ disp'[p].pc = "result"
                      /\ rid \in DOMAIN reminders'
                      /\ reminders'[rid].status = "failed"
                      /\ reminders'[rid].retry_count = max_retries + 1
                      /\ reminders'[rid].sent_at = reminders[rid].sent_at
                /\ d.pc = "result"
                   => /\ disp'[p].pc = "done"
                      /\ disp_resp'[p].status = "error"]_vars

\* C13: a dispatch for a pending reminder whose task is completed makes no
\* webhook call, sets status sent with sent_at, and returns success: the task
\* query that finds the task completed leads to the skip, without a POST,
\* and the skip writes the reminder (the row being still stored) and ends
\* the dispatch with success.
C13_SkipCompleted ==
    [][\A p \in Procs :
          LET d == disp[p]
              rid == d.rid
              task == TaskById(tasks, d.loaded.task_id)
          IN (d.loaded.status = "pending" /\ disp'[p] # d)
             => /\ (d.pc = "task" /\ task # {} /\ \A t \in task : t.completed)
                   => /\ disp'[p].pc = "skip"
                      /\ disp'[p].trace = <<>>
                      /\ webhook_ok' = webhook_ok
                /\ (d.pc = "skip" /\ RowExists(reminders, rid))
                   => /\ reminders'[rid].status = "sent"
                      /\ reminders'[rid].sent_at # 0
                      /\ webhook_ok' = webhook_ok
                      /\ disp'[p].pc = "done"
                      /\ disp'[p].trace = <<>>
                      /\ disp_resp'[p].status = "success"]_vars

\* C13 witness: a dispatch ended with the completed-task skip, the reminder is
\* sent and the webhook was never answered for it.
C13_Witness ==
    \E p \in Procs :
        /\ disp[p].pc = "done"
        /\ disp[p].rid \in ReminderIds
        /\ disp_resp[p] = Resp("success", "Task already completed, reminder skipped")
        /\ triggers[disp[p].rid] = 1
        /\ disp[p].rid \in DOMAIN reminders
        /\ reminders[disp[p].rid].status = "sent"
        /\ reminders[disp[p].rid].sent_at # 0
        /\ webhook_ok[disp[p].rid] = 0

\* C14: a dispatch for a pending reminder whose task no longer exists makes
\* no webhook call, sets status failed, and returns an error result: the
\* task query that finds no task for a reminder still stored ends the
\* dispatch in that step.
C14_SkipDeleted ==
    [][\A p \in Procs :
          LET d == disp[p]
              rid == d.rid
          IN (/\ d.pc = "task" /\ disp'[p] # d
              /\ d.loaded.status = "pending"
              /\ RowExists(reminders, rid)
              /\ TaskById(tasks, d.loaded.task_id) = {})
             => /\ reminders'[rid].status = "failed"
                /\ webhook_ok' = webhook_ok
                /\ disp'[p].pc = "done"
                /\ disp'[p].trace = <<>>
                /\ disp_resp'[p].status = "error"]_vars

\* C14 witness: a dispatch ended with the deleted-task skip, the reminder is
\* failed and the webhook was never answered for it.
C14_Witness ==
    \E p \in Procs :
        /\ disp[p].pc = "done"
        /\ disp[p].rid \in ReminderIds
        /\ disp_resp[p] = Resp("error", "Task not found (deleted)")
        /\ triggers[disp[p].rid] = 1
        /\ disp[p].rid \in DOMAIN reminders
        /\ reminders[disp[p].rid].status = "failed"
        /\ webhook_ok[disp[p].rid] = 0

\* C15: while one dispatch waits out its backoff, the other dispatches of the
\* same service process can start and go on: a new trigger can be taken up,
\* and a dispatch whose POST is in flight or whose client is closing can be
\* resumed.
C15_BackoffSuspendsOnlyItsDispatch ==
    \A p \in Procs :
        disp[p].pc = "sleep" =>
            \A q \in Procs \ {p} :
                /\ disp[q].pc \in {"idle", "done"}
                      => \E rid \in ReminderInputs : ENABLED DispatchStart(q, rid)
                /\ disp[q].pc = "post"
                      => \E a \in WebhookAnswers : ENABLED DispatchPostDone(q, a)
                /\ disp[q].pc = "close" => ENABLED DispatchClientClosed(q)

\* a task.completed event of a known rule that no redelivery can make
\* processable: its due_date is not an ISO-8601 timestamp, or the rule's
\* pattern is none of daily, weekly, monthly
Poison(e) ==
    /\ e.event_type = "task.completed"
    /\ e.recurrence_id \in DOMAIN rules
    /\ \/ e.due_date.kind = "bad"
       \/ e.due_date.kind = "iso" /\ rules[e.recurrence_id].pattern \notin VALID_PATTERNS

\* C16: a poison event is answered DROP, and RETRY is answered only for store
\* errors (the reads up to the existence query are answered in this step, so
\* it answers no RETRY).
C16_PoisonEventsDropped ==
    [][\A w \in Workers : \A e \in EventInputs :
          GenReceive(w, e)
             => /\ Poison(e) => gen_resp'[w].status = "DROP"
                /\ gen_resp'[w].status # "RETRY"]_vars

\* C17: every instance the generator has created, once the delivery that
\* created it has returned, has its task.created event published, carrying
\* the instance's id and the generator's source tag.
C17_CreateIsFollowedByEmit ==
    \A t \in tasks :
        (\A w \in Workers : ~(gen[w].pc = "refresh" /\ gen[w].new_task = t.id)) =>
        \E ev \in published :
            /\ ev.event_type = "task.created"
            /\ ev.task_id = t.id
            /\ ev.source = "recurring_task_service"

\* an event the generator has nothing to do for: any type but task.completed,
\* or a task.completed without recurrence_id
NotForGenerator(e) ==
    \/ e.event_type # "task.completed"
    \/ e.recurrence_id = None

\* C18 as stated: every event that is not a task.completed, and every
\* task.completed without recurrence_id, is answered SUCCESS, changes no task
\* and publishes nothing.
C18_AsStated ==
    [][\A w \in Workers : \A e \in EventInputs :
          (NotForGenerator(e) /\ GenReceive(w, e))
             => /\ gen_resp'[w].status = "SUCCESS"
                /\ tasks' = tasks
                /\ published' = published]_vars

\* C18 amended: such an event changes no task, publishes nothing and is
\* acknowledged without retry: with SUCCESS when its task_data is an object or
\* absent, with DROP when its task_data is present and not an object.
C18_IgnoredEvents ==
    [][\A w \in Workers : \A e \in EventInputs :
          (NotForGenerator(e) /\ GenReceive(w, e))
             => /\ gen_resp'[w].status = (IF e.task_data = "object" THEN "SUCCESS" ELSE "DROP")
                /\ gen'[w].pc = "idle"
                /\ tasks' = tasks
                /\ published' = published]_vars

\* C18 witness: with a generated task in the store, one delivery was ignored
\* for its type and another for its missing recurrence_id.
C18_Witness ==
    /\ tasks # {}
    /\ \E w1, w2 \in Workers :
          /\ gen_resp[w1] = Resp("SUCCESS", "ignored")
          /\ gen_resp[w2] = Resp("SUCCESS", "not recurring")

\* a task.completed event with a recurrence_id whose rule is not in the store
\* or whose task_data has no due_date
Unrepairable(e) ==
    /\ e.event_type = "task.completed"
    /\ e.task_data = "object"
    /\ e.recurrence_id # None
    /\ \/ e.recurrence_id \notin DOMAIN rules
       \/ e.due_date.kind = "none"

\* C19: a task.completed event with a recurrence_id but no due_date, or whose
\* rule does not exist, is answered DROP (never RETRY) and creates no task.
C19_UnrepairableIsDropped ==
    [][\A w \in Workers : \A e \in EventInputs :
          (Unrepairable(e) /\ GenReceive(w, e))
             => /\ gen_resp'[w].status = "DROP"
                /\ gen'[w].pc = "idle"
                /\ tasks' = tasks]_vars

\* C19 witness: with a generated task in the store, one delivery was dropped
\* for its unknown rule and another for its missing due_date.
C19_Witness ==
    /\ tasks # {}
    /\ \E w1, w2 \in Workers :
          /\ gen_resp[w1] = Resp("DROP", "RecurrenceRule not found")
          /\ gen_resp[w2] = Resp("DROP", "Task has no due_date")

\* C20: the instance the generator inserts has the event's title, description,
\* priority (the default "normal" when the event carries none) and tags, is
\* not completed, is due at the computed next occurrence, has the event's
\* recurrence_id and user_id, and an id no existing task has.
C20_InstanceCopiesEvent ==
    [][\A w \in Workers :
          GenInsert(w, TRUE) =>
             LET e == gen[w].ev
                 rule == rules[e.recurrence_id]
                 new == tasks' \ tasks
             IN /\ Cardinality(new) = 1
                /\ Cardinality(tasks') = Cardinality(tasks) + 1
                /\ \A t \in new :
                      /\ t.title = e.attrs.title
                      /\ t.description = e.attrs.description
                      /\ t.priority = (IF e.attrs.priority = Missing THEN "normal"
                                       ELSE e.attrs.priority)
                      /\ t.tags = e.attrs.tags
                      /\ t.completed = FALSE
                      /\ t.due_date = calculate_next_occurrence(e.due_date.dt, rule.pattern,
                                                                rule.interval)
                      /\ t.recurrence_id = e.recurrence_id
                      /\ t.user_id = e.user_id
                      /\ \A x \in tasks : x.id # t.id]_vars

\* C20 witness: the store holds an instance generated for the monthly rule
\* from Jan 31 (due Feb 28, attributes of the event) and one generated from
\* an event without priority.
C20_Witness ==
    \E t1, t2 \in tasks :
        /\ t1.id # t2.id
        /\ t1.recurrence_id = "r2" /\ t1.title = "Pay rent" /\ t1.priority = "high"
        /\ t1.tags = <<"home">> /\ t1.due_date = DateTime(2026, 2, 28, 32400)
        /\ t2.user_id = "u2" /\ t2.title = "Stand-up" /\ t2.priority = "normal"
        /\ t2.due_date = Feb01

\* the sockets on which the step's send_json call raised
FailedNow(h) ==
    { c \in Sockets : /\ bc'[h].attempts[c] > bc[h].attempts[c]
                      /\ bc'[h].sent_count = bc[h].sent_count }

\* C21: a broadcast removes from the registry exactly the connections whose
\* send failed, and only when its loop has ended; the other connections of the
\* owner stay registered, every connection of the snapshot has had its one
\* send by then, and no send is repeated.
C21_FailedSendRemovesOnlyItself ==
    [][\A h \in Handlers :
          bc[h].pc = "sending" /\ bc'[h] # bc[h]
             => LET u == bc[h].user
                    failed == bc[h].failed_connections \cup FailedNow(h)
                IN /\ \A c \in Sockets : bc'[h].attempts[c] <= 1
                   /\ \A v \in Users \ {u} :
                         Conns(active_connections', v) = Conns(active_connections, v)
                   /\ bc'[h].pc = "sending"
                         => Conns(active_connections', u) = Conns(active_connections, u)
                   /\ bc'[h].pc = "done"
                         => /\ Conns(active_connections', u) = Conns(active_connections, u) \ failed
                            /\ \A c \in bc[h].connections : bc'[h].attempts[c] = 1]_vars

\* C21 witness: a broadcast over two connections has ended; the send to one
\* failed and it is no longer registered although its endpoint still runs,
\* the other received the message and is still registered.
C21_Witness ==
    \E h \in Handlers : \E c1, c2 \in Sockets :
        /\ c1 # c2
        /\ bc[h].pc = "done" /\ bc[h].live_at_start = {c1, c2}
        /\ bc[h].attempts[c1] = 1 /\ bc[h].attempts[c2] = 1 /\ bc[h].sent_count = 1
        /\ ev_type \notin frames[c1] /\ ws[c1].pc = "open"
        /\ c1 \notin Conns(active_connections, bc[h].user)
        /\ ev_type \in frames[c2]
        /\ c2 \in Conns(active_connections, bc[h].user)

\* every socket the registry holds
Registered(ac) == UNION { ac[v] : v \in DOMAIN ac }

\* C22: no owner key of the registry maps to an empty set; accepting a
\* connection adds exactly it and raises the total count by one, the endpoint's
\* finally block and the broadcast's failure cleanup remove exactly the
\* sockets they are called for and lower the count by their number, so that
\* the count after a connection's removal is the count before its accept.
C22_NoEmptyOwnerEntry ==
    /\ [](\A u \in DOMAIN active_connections : active_connections[u] # {})
    /\ [](get_total_connections(active_connections) = Cardinality(Registered(active_connections)))
    /\ [][/\ \A s \in Sockets :
                /\ EndpointAccepted(s)
                      => /\ s \notin Registered(active_connections)
                         /\ Registered(active_connections') = Registered(active_connections) \cup {s}
                /\ EndpointClosed(s)
                      => Registered(active_connections') = Registered(active_connections) \ {s}
          /\ \A h \in Handlers :
                (bc[h].pc = "sending" /\ bc'[h].pc = "done")
                   => Registered(active_connections') =
                         Registered(active_connections) \ (bc[h].failed_connections \cup FailedNow(h))
       ]_vars

\* C22 witness: the only connection of u1 was welcomed and then removed, u1
\* has no entry left, and u2 still has one.
C22_Witness ==
    \E s1, s2 \in Sockets :
        /\ ws[s1].pc = "closed" /\ ws[s1].user = "u1"
        /\ "connection.established" \in frames[s1]
        /\ "u1" \notin DOMAIN active_connections
        /\ "u2" \in DOMAIN active_connections
        /\ active_connections["u2"] = {s2}
        /\ get_total_connections(active_connections) = 1

\* C23: a connection attempt whose token verifies to a subject other than the
\* path's owner is closed with code 4001 without touching the registry or the
\* rate-limit window, and such a socket is never registered and never sent a
\* welcome or a broadcast frame.
C23_MismatchIsRefused ==
    /\ [](\A s \in Sockets :
             ws[s].close_code = 4001
                => /\ ws[s].pc \in {"refused", "closed"}
                   /\ s \notin Registered(active_connections)
                   /\ frames[s] = {}
                   /\ \A h \in Handlers : bc[h].attempts[s] = 0 /\ s \notin bc[h].connections)
    /\ [][\A s \in Sockets : \A u \in Users : \A tok \in Users :
             (tok # u /\ EndpointConnect(s, u, tok))
                => /\ ws'[s] = [pc |-> "refused", user |-> u, close_code |-> 4001,
                                 close_reason |-> "User ID mismatch"]
                   /\ active_connections' = active_connections
                   /\ connection_timestamps' = connection_timestamps
                   /\ accepted_at' = accepted_at]_vars
    \* the finally block of the refused endpoint, whenever it runs
    /\ [][\A s \in Sockets :
             (ws[s].close_code = 4001 /\ EndpointClosed(s))
                => /\ ws'[s] = [ws[s] EXCEPT !.pc = "closed"]
                   /\ active_connections' = active_connections
                   /\ connection_timestamps' = connection_timestamps
                   /\ accepted_at' = accepted_at]_vars

\* C23 witness: an attempt for u1 made with u2's token was closed with 4001
\* and its endpoint has ended, while u1 has a live connection to which a
\* broadcast for u1 was sent.
C23_Witness ==
    \E h \in Handlers : \E s1, s2 \in Sockets :
        /\ ws[s1] = [pc |-> "closed", user |-> "u1", close_code |-> 4001,
                     close_reason |-> "User ID mismatch"]
        /\ frames[s1] = {}
        /\ s2 \in Conns(active_connections, "u1")
        /\ bc[h].pc = "done" /\ bc[h].user = "u1" /\ bc[h].attempts[s2] = 1
        /\ ev_type \in frames[s2]

\* the reminder an add_task call asks for cannot be scheduled: the offset
\* does not parse, or due date - offset is not later than the clock
UnusableOffset(a, clock) ==
    /\ a.due_date.kind = "iso"
    /\ a.reminder_offset # <<>>
    /\ \/ parse_reminder_offset(a.reminder_offset) = NoTimedelta
       \/ timestamp(a.due_date.dt) - parse_reminder_offset(a.reminder_offset).seconds <= clock

\* C24: add_task called with a due date and a reminder offset that cannot be
\* parsed, or whose trigger time is not in the future, answers status error,
\* creates no reminder record and registers no job.
C24_UnusableOffsetIsRejected ==
    [][\A a \in AddTaskInputs : \A clock \in ClockInputs : \A commit_ok \in BOOLEAN :
          AddTask("a1", a, clock, commit_ok) /\ UnusableOffset(a, clock)
             => /\ ret'.kind = "return"
                /\ ret'.value.status = "error"
                /\ reminders' = reminders
                /\ call'["a1"] = NoCall
                /\ jobs' = jobs]_vars

\* the rows an add_task call committed: its task, and its reminder with
\* status pending
Committed(c, store, rs) ==
    /\ c.task \in store
    /\ c.reminder_id \in DOMAIN rs
    /\ rs[c.reminder_id].task_id = c.task.id
    /\ rs[c.reminder_id].status = "pending"

\* C25: when registering the job fails (schedule_reminder_job returns False),
\* add_task still answers success, and the task and its reminder record,
\* committed with status pending before the scheduler was called, are left
\* as they are.
C25_SchedulingFailureIsNotFatal ==
    [][\A k \in ApiWorkers :
       /\ (call[k].fn # "add_task" /\ call'[k].fn = "add_task")
             => /\ call'[k].pc = "refresh"
                /\ tasks' # tasks
                /\ call'[k].task \in tasks'
                /\ call'[k].reminder_id # NoReminderId
                      => reminders' # reminders /\ Committed(call'[k], tasks', reminders')
       /\ (call'[k].fn = "add_task" /\ call'[k] # call[k] /\ call'[k].pc = "schedule")
             => /\ call[k].fn = "add_task" /\ call[k].pc = "refresh"
                /\ call'[k].reminder_id = call[k].reminder_id
                /\ Committed(call'[k], tasks, reminders)
                /\ tasks' = tasks /\ reminders' = reminders
       /\ (call[k].fn = "add_task" /\ call[k].pc = "schedule" /\ call'[k] # call[k]
             /\ jobs' = jobs)
             => /\ ret' = Return(Success(call[k].task))
                /\ call'[k] = NoCall
                /\ tasks' = tasks
                /\ reminders' = reminders]_vars

\* a call whose scheduling failed has answered success: its task is stored,
\* its reminder is stored pending, and no job was ever registered
C25_Witness ==
    /\ \A k \in ApiWorkers : call[k] = NoCall
    /\ jobs = {}
    /\ ret.kind = "return"
    /\ ret.value.status = "success"
    /\ \E i \in DOMAIN reminders :
          /\ reminders[i].task_id = ret.value.task_id
          /\ reminders[i].status = "pending"
          /\ \E t \in tasks : t.id = ret.value.task_id

\* a calendar date that exists
ValidDate(dt) == dt.mo \in 1..12 /\ dt.d \in 1..DaysInMonth(dt.y, dt.mo)

\* months since year 0
MonthIndex(dt) == dt.y * 12 + dt.mo - 1

\* C26: calculate_next_occurrence(d, daily, n) is d + n days, (d, weekly, n) is
\* d + 7n days, (d, monthly, n) has the month advanced by n, the day
\* min(day of d, last day of the target month) and the time of day of d; two
\* monthly steps of interval 1 from Jan 31 end in March; any other pattern
\* raises ValueError.
C26_NextOccurrence ==
    (call.fn = "calculate_next_occurrence" /\ ret # NoRet) =>
        LET d == call.current_date
            n == call.interval
        IN /\ call.pattern = "daily" =>
                /\ ret.kind = "return" /\ ValidDate(ret.value)
                /\ toordinal(ret.value) = toordinal(d) + n
                /\ ret.value.tod = d.tod
           /\ call.pattern = "weekly" =>
                /\ ret.kind = "return" /\ ValidDate(ret.value)
                /\ toordinal(ret.value) = toordinal(d) + 7 * n
                /\ ret.value.tod = d.tod
           /\ call.pattern = "monthly" =>
                /\ ret.kind = "return" /\ ValidDate(ret.value)
                /\ MonthIndex(ret.value) = MonthIndex(d) + n
                /\ ret.value.d = Min(d.d, DaysInMonth(ret.value.y, ret.value.mo))
                /\ ret.value.tod = d.tod
           /\ (call.pattern = "monthly" /\ n = 1 /\ call.applied = 2
                 /\ call.origin.mo = 1 /\ call.origin.d = 31) =>
                /\ ret.value.y = call.origin.y /\ ret.value.mo = 3
                /\ ret.value.tod = call.origin.tod
           /\ call.pattern \notin {"daily", "weekly", "monthly"} =>
                ret.kind = "raise" /\ ret.type = "ValueError"

\* the second monthly step from 2026-01-31 has returned
C26_Witness ==
    /\ call.fn = "calculate_next_occurrence"
    /\ call.pattern = "monthly" /\ call.interval = 1
    /\ call.origin = Jan31 /\ call.applied = 2
    /\ ret.kind = "return"
    /\ ret.value = DateTime(2026, 3, 28, 32400)

\* the interval bounds the specification gives for a pattern
StatedBounds(pattern) ==
    IF pattern = "daily" THEN <<1, 365>>
    ELSE IF pattern = "weekly" THEN <<1, 52>>
    ELSE <<1, 12>>

\* C27: validate_recurrence_pattern(p, n) returns True exactly when p is daily,
\* weekly or monthly and n lies in 1..365, 1..52 or 1..12 respectively; for
\* every other (p, n) it raises ValueError whose message names the violated
\* bounds, or the allowed patterns.
C27_ValidateRecurrencePattern ==
    (call.fn = "validate_recurrence_pattern" /\ ret # NoRet) =>
        LET p == call.pattern
            n == call.interval
            valid == /\ p \in {"daily", "weekly", "monthly"}
                     /\ n \in StatedBounds(p)[1]..StatedBounds(p)[2]
        IN /\ valid <=> ret = Return(TRUE)
           /\ ~valid =>
                /\ ret.kind = "raise" /\ ret.type = "ValueError"
                /\ ret.message.names =
                      IF p \in {"daily", "weekly", "monthly"} THEN StatedBounds(p)
                      ELSE {"daily", "weekly", "monthly"}

\* a weekly interval just past its upper bound has been refused
C27_Witness ==
    /\ call.fn = "validate_recurrence_pattern"
    /\ call.pattern = "weekly" /\ call.interval = 53
    /\ ret.kind = "raise"

\* the duration the text "<N> <unit> before" stands for, NoTimedelta for any
\* other text; letter case, surrounding blanks and the width of the blanks
\* between the words are not held against the text
StatedOffset(offset_str) ==
    LET s == strip(lower(offset_str))
        minutes == re_fullmatch(MINUTE, s)
        hours == re_fullmatch(HOUR, s)
        days == re_fullmatch(DAY, s)
    IN IF minutes # NoMatch THEN timedelta(int(minutes.group) * 60)
       ELSE IF hours # NoMatch THEN timedelta(int(hours.group) * 3600)
       ELSE IF days # NoMatch THEN timedelta(int(days.group) * 86400)
       ELSE NoTimedelta

\* C28: parse_reminder_offset returns a duration of N units exactly when the
\* input has the form "<N> <unit> before" with unit minute(s), hour(s) or
\* day(s); for every other string it returns None, and it never raises.
C28_ParseReminderOffset ==
    (call.fn = "parse_reminder_offset" /\ ret # NoRet) =>
        /\ ret.kind = "return"
        /\ ret.value = StatedOffset(call.offset_str)

\* C29: validate_reminder_offset(offset, due) returns (False, message), without
\* raising, whenever the offset fails to parse, the due date is timezone-naive,
\* or due - offset is not strictly later than the current time; it returns
\* (True, None) in every other case.
C29_ValidateReminderOffset ==
    (call.fn = "validate_reminder_offset" /\ ret # NoRet) =>
        LET offset == parse_reminder_offset(call.offset_str)
            rejected == \/ offset = NoTimedelta
                        \/ ~call.due_date.aware
                        \/ call.due_date.ts - offset.seconds <= call.clock
        IN /\ ret.kind = "return"
           /\ rejected => ret.value[1] = FALSE
           /\ ~rejected => ret.value = <<TRUE, None>>

\* the generator and the hub treat body b and the body {data: b} alike: from
\* the same state either delivery gives the same response and the same next
\* state (the hub's frames follow from the broadcast it starts)
SameAsWrapped(b) ==
    /\ \A w \in Workers : GenDeliver(w, b) <=> GenDeliver(w, Wrapped(b))
    /\ \A h \in Handlers : HandleTaskUpdate(h, b) <=> HandleTaskUpdate(h, Wrapped(b))

\* C30: for every event body e, each consumer returns the same result and
\* makes the same state change and sends for the flat envelope e as for the
\* wrapped envelope {data: e}.
C30_EnvelopeEquivalence ==
    [][\A b \in BodyInputs \cup UpdateInputs : SameAsWrapped(b)]_vars

\* deliveries in both forms have been handled and a next instance created
C30_Witness ==
    /\ tasks # {}
    /\ \E w \in Workers : gen_resp[w] = Resp("SUCCESS", "created")
    /\ \E w \in Workers : gen_resp[w] = Resp("SUCCESS", "exists")

\* a handler slot has answered its request
Answered(h) == bc[h].pc = "done"

\* C31: handle_task_update answers every request with 200 (whatever the body,
\* and also when sends of the broadcast fail), and a body without user_id
\* causes no frame and no change of the registry.
C31_HubAlwaysAcknowledges ==
    /\ [](\A h \in Handlers : Answered(h) => bc[h].status_code = 200)
    /\ [][\A h \in Handlers, b \in PostedInputs :
            HandleTaskUpdate(h, b) /\ handle_task_update_path(b) # "broadcast"
            => /\ Answered(h)'
               /\ frames' = frames
               /\ active_connections' = active_connections]_vars

\* a broadcast to a live connection has ended with a failed send and been
\* answered, leaving the owner without connections
C31_Witness ==
    \E h \in Handlers :
        /\ Answered(h)
        /\ bc[h].live_at_start # {}
        /\ bc[h].sent_count < Cardinality(bc[h].live_at_start)
        /\ bc[h].status_code = 200

\* C32: on every accepted connection the connection.established frame is
\* the first frame the server sends; no broadcast frame precedes it.
C32_WelcomeFrameFirst ==
    [][\A s \in Sockets :
          ev_type \in frames'[s] /\ ev_type \notin frames[s]
          => "connection.established" \in frames[s]]_vars

\* time since the owner's latest accept: where clients send nothing, every
\* connection of the owner has been silent for at least this long
RECURSIVE SeqMax(_)
SeqMax(q) == IF q = <<>> THEN 0 ELSE SetMax({Head(q), SeqMax(Tail(q))})
silent_for(s) == now - SeqMax(accepted_at[ws[s].user])

\* C33: a live connection on which no client frame arrives for longer than
\* the idle timeout is eventually removed from the registry.
C33_IdleConnectionsRemoved ==
    \A s \in HubSockets :
        (/\ ws[s].pc = "open"
         /\ s \in Registered(active_connections)
         /\ silent_for(s) > IdleTimeout)
            ~> s \notin Registered(active_connections)

\* the event reaches the existence check of process_recurring_task, and the
\* store holds a non-completed task of its rule and owner due at the
\* computed next occurrence
OpenNextInstanceExists(e) ==
    /\ e.event_type = "task.completed"
    /\ e.task_data = "object"
    /\ e.recurrence_id \in DOMAIN rules
    /\ e.due_date.kind = "iso"
    /\ rules[e.recurrence_id].pattern \in VALID_PATTERNS
    /\ \E t \in tasks : /\ t.recurrence_id = e.recurrence_id
                        /\ t.user_id = e.user_id
                        /\ t.due_date = NextDue(e)
                        /\ ~t.completed

\* C34: when the next instance of the event's rule, owner and computed due
\* date exists and is not completed, the handler answers SUCCESS, inserts no
\* task and publishes nothing: the task store is unchanged.
C34_SkipStep ==
    [][\A w \in Workers : \A e \in EventInputs :
          (OpenNextInstanceExists(e) /\ GenReceive(w, e))
             => /\ gen_resp'[w].status = "SUCCESS"
                /\ gen'[w].pc = "idle"
                /\ tasks' = tasks
                /\ published' = published]_vars

\* a redelivery found the instance the first delivery had created, and the
\* store still holds that one task only
C34_Witness ==
    /\ Cardinality(tasks) = 1
    /\ \A t \in tasks : ~t.completed
    /\ \E w \in Workers : gen_resp[w] = Resp("SUCCESS", "exists")
    /\ \A w \in Workers : gen[w].pc = "idle"

\* C35: one delivery inserts at most one task, no event other than a
\* task.completed (the generator's own task.created included) causes an
\* insertion, and the generated instances never outnumber the task.completed
\* deliveries handled.
C35_NoGenerationLoop ==
    /\ [](Cardinality(tasks) + Cardinality({w \in Workers : gen[w].pc = "insert"}) <= handled)
    /\ [][/\ Cardinality(tasks') <= Cardinality(tasks) + 1
          /\ \A w \in Workers : \A e \in EventInputs :
                (e.event_type # "task.completed" /\ GenReceive(w, e))
                   => gen'[w].pc = "idle" /\ tasks' = tasks /\ handled' = handled]_vars

\* two task.completed deliveries were handled and two instances exist, the
\* second generated from the completion of the first
C35_Witness ==
    /\ handled = 2
    /\ Cardinality(tasks) = 2
    /\ \E t \in tasks : t.completed

\* the task of the reminder dispatch d loaded is no longer what its check
\* saw: it has been deleted or completed
TaskGone(d) ==
    LET task == TaskById(tasks, d.loaded.task_id)
    IN task = {} \/ task_completed(task)

\* C36: the completed/deleted check is made once, before the first POST: a
\* dispatch whose task is completed or deleted between its attempts goes on
\* with the remaining attempts, and the final status of its reminder (where
\* the row is still stored) follows from the webhook's answers alone: sent
\* after a 2xx, failed after the last failed attempt.
C36_SkipCheckOnlyOnce ==
    [][\A p \in Procs :
          LET d == disp[p] IN
          /\ (DispatchWake(p) /\ TaskGone(d)) => disp'[p].pc = "post"
          /\ (d.pc = "post" /\ disp'[p] # d /\ TaskGone(d))
                => disp'[p].pc \in {"count", "close"}
          /\ (d.pc = "close" /\ disp'[p] # d /\ TaskGone(d)
                /\ d.trace[Len(d.trace)] = PostFail /\ d.attempt < max_retries)
                => disp'[p].pc = "sleep"
          /\ (/\ d.pc \in {"close", "refresh", "tally", "fail", "result"}
              /\ disp'[p].pc = "done" /\ TaskGone(d)
              /\ d.rid \in DOMAIN reminders')
                => reminders'[d.rid].status =
                     (IF \E i \in DOMAIN d.trace : d.trace[i] = PostOk
                      THEN "sent" ELSE "failed")]_vars

\* C37: once disconnect has removed a connection from the registry, no
\* broadcast frame is sent to it any more, not even by a broadcast that
\* copied the owner's connections before the removal.
C37_NoFrameAfterRemoval ==
    [][\A h \in Handlers, c \in Sockets :
          BroadcastSend(h, c, TRUE) => c \in Registered(active_connections)]_vars

\* number of the owner's connection timestamps inside the rate window at t
in_window(stamps, t) ==
    Cardinality({ i \in DOMAIN stamps : stamps[i] > t - CONNECTION_RATE_LIMIT_WINDOW })

\* the attempt presents another owner's token, or the owner is at the
\* connection limit, or at the limit of accepts within the window
MustBeRefused(user_id, token) ==
    \/ token \in Users \ {user_id}
    \/ Cardinality(Conns(active_connections, user_id)) >= max_per_user
    \/ in_window(connection_timestamps[user_id], now) >= MAX_CONNECTIONS_PER_WINDOW

\* C38: a connection attempt is refused exactly when it has an owner
\* mismatch, or the owner is at max connections or at the rate limit; a
\* refused attempt is never accepted or registered, and neither the refusal
\* nor its endpoint's finally-block disconnect, whenever that runs, changes
\* the registry or the owner's count of timestamps inside the rate window.
C38_RefusalChangesNothing ==
    /\ [](\A s \in Sockets :
             ws[s].close_code # 0
                => /\ ws[s].pc \in {"refused", "closed"}
                   /\ ws[s].close_code \in {4001, 4003}
                   /\ s \notin Registered(active_connections)
                   /\ frames[s] = {})
    /\ [][\A s \in Sockets, u \in Users, tok \in TokenInputs :
             (ws[s].pc = "new" /\ ws'[s].pc # "new" /\ EndpointConnect(s, u, tok))
                => /\ MustBeRefused(u, tok) <=> ws'[s].pc = "refused"
                   /\ ws'[s].pc = "refused"
                        => /\ ws'[s].close_code \in {4001, 4003}
                           /\ active_connections' = active_connections
                           /\ accepted_at' = accepted_at
                           /\ \A v \in Users :
                                 in_window(connection_timestamps'[v], now)
                                    = in_window(connection_timestamps[v], now)]_vars
    /\ [][\A s \in Sockets :
             (ws[s].pc = "refused" /\ EndpointClosed(s))
                => /\ ws'[s] = [ws[s] EXCEPT !.pc = "closed"]
                   /\ active_connections' = active_connections
                   /\ accepted_at' = accepted_at
                   /\ connection_timestamps' = connection_timestamps]_vars

\* C38 witness: an attempt made while the owner held max_per_user live
\* connections was closed with 4003 for the reason "max connections", its
\* endpoint's finally block has run, and the three connections are still live
C38_Witness ==
    \E s \in Sockets :
        /\ ws[s].pc = "closed" /\ ws[s].user = "u1"
        /\ ws[s].close_code = 4003 /\ ws[s].close_reason = "max connections"
        /\ "u1" \in DOMAIN active_connections
        /\ Cardinality(active_connections["u1"]) = max_per_user
        /\ s \notin active_connections["u1"]

\* C39: a second disconnect(ws, owner), such as the endpoint's finally block
\* after a broadcast's failure cleanup, and a disconnect for a socket that is
\* not registered, are defined (nothing raises) and leave the registry as it
\* is.
C39_DisconnectIdempotent ==
    /\ [](\A s \in Sockets, u \in Users :
            LET once == disconnect(active_connections, s, u) IN
            /\ disconnect(once, s, u) = once
            /\ s \notin Conns(active_connections, u) => once = active_connections
            /\ DOMAIN once \subseteq Users
            /\ \A v \in DOMAIN once : once[v] # {} /\ once[v] \subseteq Sockets)
    /\ [][\A s \in Sockets :
            (s \notin Registered(active_connections) /\ EndpointClosed(s))
               => active_connections' = active_connections]_vars

\* a broadcast over two connections has ended; the connection whose send
\* failed was removed by the cleanup and by its endpoint's finally block, and
\* the other connection is still registered
C39_Witness ==
    \E h \in Handlers : \E c1, c2 \in Sockets :
        /\ c1 # c2
        /\ bc[h].pc = "done" /\ bc[h].live_at_start = {c1, c2}
        /\ bc[h].sent_count = 1
        /\ ev_type \notin frames[c1] /\ ws[c1].pc = "closed"
        /\ c1 \notin Registered(active_connections)
        /\ ev_type \in frames[c2] /\ ws[c2].pc = "open"
        /\ c2 \in Conns(active_connections, bc[h].user)

\* C40 as stated: a job is registered only by a call that has committed the
\* task and the reminder with status pending, so every registered job names a
\* reminder and a task that are in the store when it is registered.
C40_AsStated ==
    [][jobs' # jobs
          => \E j \in jobs' \ jobs :
                /\ jobs' = jobs \cup {j}
                /\ j.reminder_id \in DOMAIN reminders
                /\ reminders[j.reminder_id].status = "pending"
                /\ reminders[j.reminder_id].task_id = j.task_id
                /\ \E t \in tasks : t.id = j.task_id]_vars

\* C40: a job is registered only by a call that has committed the task and
\* the reminder with status pending, so every registered job names a reminder
\* and a task that had been committed to the store before it was registered.
C40_JobOnlyAfterCommit ==
    /\ [][\A k \in ApiWorkers :
             (call[k].fn # "add_task" /\ call'[k].fn = "add_task")
                => /\ call'[k].pc = "refresh"
                   /\ tasks' # tasks
                   /\ call'[k].task \in tasks'
                   /\ call'[k].reminder_id # NoReminderId
                         => Committed(call'[k], tasks', reminders')]_vars
    /\ [][\A k \in ApiWorkers :
             (call'[k].fn = "add_task" /\ call'[k] # call[k] /\ call[k].fn = "add_task")
                => /\ call[k].pc = "refresh" /\ call'[k].pc = "schedule"
                   /\ call'[k].task.id = call[k].task.id
                   /\ call'[k].reminder_id = call[k].reminder_id
                   /\ call[k].reminder_id # NoReminderId]_vars
    /\ [][jobs' # jobs
             => \E k \in ApiWorkers :
                   /\ call[k].fn = "add_task" /\ call[k].pc = "schedule"
                   /\ call'[k] = NoCall
                   /\ jobs' = jobs \cup {job_data(call[k].reminder_id, call[k].task)}]_vars

\* a call committed a task and its reminder and registered the job for them
C40_Witness ==
    /\ \A k \in ApiWorkers : call[k] = NoCall
    /\ \E j \in jobs :
          /\ j.reminder_id \in DOMAIN reminders
          /\ reminders[j.reminder_id].status = "pending"
          /\ reminders[j.reminder_id].task_id = j.task_id
          /\ \E t \in tasks : t.id = j.task_id

====
